---------------------------- MODULE Spec2Model ----------------------------
(***************************************************************************)
(* A model of the ERC-8004 Python SDK (package erc8004).                   *)
(*                                                                         *)
(*  - the content-identifier codec of utils/ipfs.py (base58_decode,        *)
(*    cid_to_bytes32, ipfs_uri_to_bytes32, IPFSClient.fetch) together with *)
(*    the base-58 encoder of examples/test_validation.py;                  *)
(*  - the feedback-authorization builder and signer of reputation.py       *)
(*    (create_feedback_auth, sign_feedback_auth, give_feedback).           *)
(*                                                                         *)
(* Strings are sequences of one-character strings, byte strings are        *)
(* sequences of integers in 0..255.  Python's unbounded integers are       *)
(* represented as big-endian byte sequences where they can exceed the      *)
(* range of the model checker's integers.                                  *)
(***************************************************************************)
EXTENDS Integers, Sequences, FiniteSets, TLC

VARIABLES
    pc,       \* position of the caller's script
    buf,      \* the byte buffer the identifier was generated from
    src,      \* "buffer": cid was produced by the encoder; "caller": a given string
    cid,      \* the identifier string, before any scheme is put in front of it
    uri,      \* the identifier or URI string the caller holds
    call1,    \* first library call made: [fn, arg, out]
    call2,    \* second library call made
    identity_registry_address,  \* ReputationClient's configured registry
    auth,     \* the FeedbackAuth dictionary the agent owner holds
    signLog,  \* the sign_feedback_auth calls made, in order
    sent,     \* the requests handed to adapter.send, in order
    fbOut,    \* outcome of give_feedback
    adapterCfg, \* the adapter: has it an account, how it returns bytes values
    chain,    \* the identity registry: agents registered, metadata stored
    lastOp,   \* the facade call made last, with its arguments
    adapterLog, \* the adapter requests that call made, in order
    result,   \* what that call returned or raised
    ipfs_config, \* the IPFSClientConfig of the storage client
    http,     \* the HTTP requests the storage call made, in order
    storageOp,  \* the storage call made last, with its arguments
    storageOut, \* what that storage call returned or raised
    ledger,   \* the node: per account the mined transaction count, the pool, the blocks
    rpc,      \* the requests the adapters made to the node, in order
    threads,  \* per caller: the adapter call in progress and its position
    history   \* the adapter and facade calls completed, in order

codecVars == <<buf, src, cid, uri, call1, call2>>

authVars == <<identity_registry_address, auth, signLog, sent, fbOut>>

facadeVars == <<adapterCfg, chain, lastOp, adapterLog, result>>

storageVars == <<ipfs_config, http, storageOp, storageOut>>

ledgerVars == <<ledger, rpc, threads, history>>

extVars == <<storageVars, ledgerVars>>

vars == <<pc, buf, src, cid, uri, call1, call2,
          identity_registry_address, auth, signLog, sent, fbOut,
          adapterCfg, chain, lastOp, adapterLog, result,
          ipfs_config, http, storageOp, storageOut, ledger, rpc, threads, history>>

-----------------------------------------------------------------------------
(* Generic helpers                                                         *)

Reverse(s) == [i \in 1..Len(s) |-> s[Len(s) + 1 - i]]

Repeat(x, n) == [i \in 1..n |-> x]

\* All sequences over S of length exactly n / at most n.
RECURSIVE SeqsOfLen(_, _)
SeqsOfLen(S, n) ==
    IF n = 0 THEN {<<>>}
    ELSE {Append(s, x) : s \in SeqsOfLen(S, n - 1), x \in S}

RECURSIVE SeqsUpTo(_, _)
SeqsUpTo(S, n) ==
    IF n = 0 THEN {<<>>} ELSE SeqsOfLen(S, n) \cup SeqsUpTo(S, n - 1)

\* s[from..] (1-based), the Python slice s[from-1:].
Drop(s, n) == SubSeq(s, n + 1, Len(s))

\* Python's str.startswith.
StartsWith(s, p) == Len(s) >= Len(p) /\ SubSeq(s, 1, Len(p)) = p

\* Outcome of a call: a returned value or a raised ValueError.
Ok(v) == [ok |-> TRUE, val |-> v, err |-> "none"]
Raise(e) == [ok |-> FALSE, val |-> <<>>, err |-> e]

-----------------------------------------------------------------------------
(* Bounds of the model                                                     *)

\* Longest generic byte buffer handed to the encoder.
MaxLen == 4
\* Most leading zero bytes of a digest.
MaxLeadZeros == 3

\* Byte values the buffers are built from.
ByteVals == {0, 58, 255}

-----------------------------------------------------------------------------
(* The base-58 codec: utils/ipfs.py and examples/test_validation.py        *)

BASE58_ALPHABET ==
    <<"1", "2", "3", "4", "5", "6", "7", "8", "9", "A", "B", "C", "D", "E",
      "F", "G", "H", "J", "K", "L", "M", "N", "P", "Q", "R", "S", "T", "U",
      "V", "W", "X", "Y", "Z", "a", "b", "c", "d", "e", "f", "g", "h", "i",
      "j", "k", "m", "n", "o", "p", "q", "r", "s", "t", "u", "v", "w", "x",
      "y", "z">>

\* The errors of the codec, one per raise site (all are ValueError in Python).
MalformedIdentifier == "MalformedIdentifier"  \* str.index fails, ipfs.py:85
UnsupportedPrefix   == "OnlyCIDv0Supported"   \* ipfs.py:127-128
LengthMismatch      == "LengthMismatch"       \* ipfs.py:136-139
UnsupportedVariant  == "UnsupportedVariant"   \* ipfs.py:141-142

InAlphabet(ch) == \E i \in 1..Len(BASE58_ALPHABET) : BASE58_ALPHABET[i] = ch

\* BASE58_ALPHABET.index(char), 0-based; defined for characters of the alphabet.
AlphabetIndex(ch) ==
    (CHOOSE i \in 1..Len(BASE58_ALPHABET) : BASE58_ALPHABET[i] = ch) - 1

\* while carry > 0: bytes_list.append(carry & 0xFF); carry >>= 8
RECURSIVE AppendCarry(_, _)
AppendCarry(bytes_list, carry) ==
    IF carry > 0
    THEN AppendCarry(Append(bytes_list, carry % 256), carry \div 256)
    ELSE bytes_list

\* for j in range(lo-1, hi): carry += bytes_list[j] * 58;
\*     bytes_list[j] = carry & 0xFF; carry >>= 8
\* as <<bytes_list[lo..hi] afterwards, carry afterwards>>.  The range is cut in
\* halves, the carry of the first half entering the second, which is the loop
\* in the same order with a shallow evaluation.
RECURSIVE MulAddRange(_, _, _, _)
MulAddRange(bytes_list, lo, hi, carry) ==
    IF lo > hi THEN << <<>>, carry >>
    ELSE IF lo = hi
    THEN LET c == carry + bytes_list[lo] * 58
         IN  << <<c % 256>>, c \div 256 >>
    ELSE LET mid == (lo + hi) \div 2
             a == MulAddRange(bytes_list, lo, mid, carry)
             b == MulAddRange(bytes_list, mid + 1, hi, a[2])
         IN  <<a[1] \o b[1], b[2]>>

\* The body of the loop over the characters, for one character of the alphabet.
MulAdd(bytes_list, index) ==
    LET r == MulAddRange(bytes_list, 1, Len(bytes_list), index)
    IN  AppendCarry(r[1], r[2])

\* The first loop of base58_decode over input_str[lo..hi], entered with the
\* outcome st so far: the little-endian bytes_list, or the ValueError of
\* str.index on the first character that is not in the alphabet.
RECURSIVE DecodeRange(_, _, _, _)
DecodeRange(input_str, lo, hi, st) ==
    IF ~st.ok \/ lo > hi THEN st
    ELSE IF lo = hi
    THEN IF ~InAlphabet(input_str[lo]) THEN Raise(MalformedIdentifier)
         ELSE Ok(MulAdd(st.val, AlphabetIndex(input_str[lo])))
    ELSE LET mid == (lo + hi) \div 2
             a == DecodeRange(input_str, lo, mid, st)
         IN  IF ~a.ok THEN a ELSE DecodeRange(input_str, mid + 1, hi, a)

DecodeDigits(input_str) == DecodeRange(input_str, 1, Len(input_str), Ok(<<>>))

\* for char in input_str: if char != "1": break -- the number of iterations
\* that append a zero byte.
LeadingOnes(input_str) ==
    CHOOSE k \in 0..Len(input_str) :
        /\ \A i \in 1..k : input_str[i] = "1"
        /\ k = Len(input_str) \/ input_str[k + 1] # "1"

\* A decoder without the leading-zero loop.
base58_decode_no_leading_zeros(input_str) ==
    LET d == DecodeDigits(input_str)
    IN  IF d.ok THEN Ok(Reverse(d.val)) ELSE d

\* A decoder that passes over the characters it does not know.
base58_decode_skipping(input_str) ==
    LET known == SelectSeq(input_str, InAlphabet)
        d == DecodeDigits(known)
    IN  Ok(Reverse(d.val \o Repeat(0, LeadingOnes(known))))

base58_decode(input_str) ==
    LET d == DecodeDigits(input_str)
    IN  IF d.ok
        THEN Ok(Reverse(d.val \o Repeat(0, LeadingOnes(input_str))))
        ELSE d

\* --- encoder of generate_random_cidv0 ------------------------------------

\* num // 58 and num % 58 for the big-endian number num, as long division over
\* the bytes num[lo..hi] entered with remainder rem:
\* <<quotient bytes, remainder>>.
RECURSIVE DivMod58Range(_, _, _, _)
DivMod58Range(num, lo, hi, rem) ==
    IF lo > hi THEN << <<>>, rem >>
    ELSE IF lo = hi
    THEN LET cur == rem * 256 + num[lo]
         IN  << <<cur \div 58>>, cur % 58 >>
    ELSE LET mid == (lo + hi) \div 2
             a == DivMod58Range(num, lo, mid, rem)
             b == DivMod58Range(num, mid + 1, hi, a[2])
         IN  <<a[1] \o b[1], b[2]>>

DivMod58(num) == DivMod58Range(num, 1, Len(num), 0)

\* not (num > 0)
IsZero(num) == \A i \in 1..Len(num) : num[i] = 0

\* One pass of: while num > 0: encoded = ALPHABET[num % 58] + encoded; num //= 58
\* on the loop state <<num, encoded>>; the state is left alone once num = 0.
EncodeStep(st) ==
    IF IsZero(st[1]) THEN st
    ELSE LET qr == DivMod58(st[1])
         IN  <<qr[1], <<BASE58_ALPHABET[qr[2] + 1]>> \o st[2]>>

\* k passes of the loop.
RECURSIVE EncodeLoop(_, _)
EncodeLoop(st, k) ==
    IF k = 0 THEN st
    ELSE IF k = 1 THEN EncodeStep(st)
    ELSE LET half == EncodeLoop(st, k \div 2)
         IN  IF IsZero(half[1]) THEN half ELSE EncodeLoop(half, k - k \div 2)

\* The loop run to its end: a number of n bytes has at most 2n base-58 digits.
EncodeDigits(num) == EncodeLoop(<<num, <<>> >>, 2 * Len(num))[2]

\* for byte in cid_bytes: if byte == 0: encoded = '1' + encoded else: break
LeadingZeroBytes(cid_bytes) ==
    CHOOSE k \in 0..Len(cid_bytes) :
        /\ \A i \in 1..k : cid_bytes[i] = 0
        /\ k = Len(cid_bytes) \/ cid_bytes[k + 1] # 0

encode_base58(cid_bytes) ==
    Repeat("1", LeadingZeroBytes(cid_bytes)) \o EncodeDigits(cid_bytes)

\* --- hex ------------------------------------------------------------------

HexDigits ==
    <<"0", "1", "2", "3", "4", "5", "6", "7", "8", "9",
      "a", "b", "c", "d", "e", "f">>

\* bytes.hex()
BytesToHex(b) ==
    [i \in 1..(2 * Len(b)) |->
        IF i % 2 = 1 THEN HexDigits[(b[(i + 1) \div 2] \div 16) + 1]
                     ELSE HexDigits[(b[i \div 2] % 16) + 1]]

\* --- cid_to_bytes32, ipfs_uri_to_bytes32, fetch ---------------------------

Qm == <<"Q", "m">>
IpfsScheme == <<"i", "p", "f", "s", ":", "/", "/">>

\* len(decoded_bytes) != 34, negated
LengthOk_any(decoded_bytes) == TRUE

LengthOk(decoded_bytes) == Len(decoded_bytes) = 34

\* decoded_bytes[0] != 0x12 or decoded_bytes[1] != 0x20, negated
HeaderOk_any(decoded_bytes) == TRUE

HeaderOk(decoded_bytes) == decoded_bytes[1] = 18 /\ decoded_bytes[2] = 32

\* hash_bytes = decoded_bytes[2:]
hash_bytes_keep_header(decoded_bytes) == decoded_bytes

hash_bytes(decoded_bytes) == Drop(decoded_bytes, 2)

cid_to_bytes32(cid_str) ==
    IF ~StartsWith(cid_str, Qm) THEN Raise(UnsupportedPrefix)
    ELSE LET decoded == base58_decode(cid_str)
         IN  IF ~decoded.ok THEN decoded
             ELSE IF ~LengthOk(decoded.val) THEN Raise(LengthMismatch)
             ELSE IF ~HeaderOk(decoded.val) THEN Raise(UnsupportedVariant)
             ELSE Ok(<<"0", "x">> \o BytesToHex(hash_bytes(decoded.val)))

\* Removal of the scheme only where it is a leading prefix.
strip_scheme_prefix_only(s) ==
    IF StartsWith(s, IpfsScheme) THEN Drop(s, Len(IpfsScheme)) ELSE s

\* Whether an occurrence of the scheme starts at s[i].
SchemeAt(s, i) ==
    /\ i + Len(IpfsScheme) - 1 <= Len(s)
    /\ SubSeq(s, i, i + Len(IpfsScheme) - 1) = IpfsScheme

\* str.replace("ipfs://", ""): every occurrence is removed.  No two occurrences
\* of "ipfs://" overlap (no proper prefix of it is a suffix of it), so the
\* characters removed are those that lie in any occurrence.
strip_scheme(s) ==
    LET kept == {i \in 1..Len(s) :
                    ~\E j \in 1..i : j + Len(IpfsScheme) > i /\ SchemeAt(s, j)}
        Nth(k) == CHOOSE i \in kept : Cardinality({j \in kept : j <= i}) = k
    IN  [k \in 1..Cardinality(kept) |-> s[Nth(k)]]

\* A conversion that passes the URI on as it is.
ipfs_uri_to_bytes32_no_strip(u) == cid_to_bytes32(u)

ipfs_uri_to_bytes32(u) == cid_to_bytes32(strip_scheme(u))

gateway_url ==
    <<"h", "t", "t", "p", "s", ":", "/", "/", "i", "p", "f", "s", ".", "i",
      "o", "/", "i", "p", "f", "s", "/">>

\* IPFSClient.fetch up to the HTTP request: the URL requested.
fetch_url(cid_or_uri) == Ok(gateway_url \o strip_scheme(cid_or_uri))

-----------------------------------------------------------------------------
(* Inputs                                                                  *)

\* A digest of n bytes: z zero bytes followed by the byte b repeated.
Digest(z, b, n) == Repeat(0, z) \o Repeat(b, n - z)

Headers == {<<18, 32>>, <<1, 32>>, <<18, 33>>, <<18, 31>>, <<0, 32>>}

CidBuffers ==
    {h \o Digest(z, b, 32) : h \in Headers, z \in 0..MaxLeadZeros, b \in ByteVals}
    \cup {<<18, 32>> \o Digest(z, b, n) :
              z \in 0..MaxLeadZeros, b \in ByteVals, n \in {31, 33}}

Buffers == SeqsUpTo(ByteVals, MaxLen) \cup CidBuffers

\* Strings a caller may pass that no encoder produced.
RawStrings ==
    { <<"0">>,
      <<"n", "o", "t", "-", "b", "a", "s", "e", "5", "8", "-", "!", "@", "#">>,
      <<"Q", "m">>,
      <<"Q", "m", "0", "O", "I", "l">>,
      <<"Q", "m", "i", "p", "f", "s", ":", "/", "/", "Q", "m">>,
      <<"i", "p", "f", "i", "p", "f", "s", ":", "/", "/", "s", ":", "/", "/",
        "Q", "m">>,
      <<"1", "1", "Q", "m">> }

NoCall == [fn |-> "none", arg |-> <<>>, out |-> Raise("none")]

Functions == {"base58_decode", "cid_to_bytes32", "ipfs_uri_to_bytes32", "fetch"}

Apply(fn, arg) ==
    CASE fn = "base58_decode"       -> base58_decode(arg)
      [] fn = "cid_to_bytes32"      -> cid_to_bytes32(arg)
      [] fn = "ipfs_uri_to_bytes32" -> ipfs_uri_to_bytes32(arg)
      [] fn = "fetch"               -> fetch_url(arg)

-----------------------------------------------------------------------------
(* The codec's callers                                                     *)

\* The facade before any call: a signing adapter, an empty registry.
NoOp == [op |-> "none"]

FacadeIdle ==
    /\ adapterCfg = [account |-> TRUE, format |-> "bytes"]
    /\ chain = [registered |-> 0, metadata |-> <<>>]
    /\ lastOp = NoOp
    /\ adapterLog = <<>>
    /\ result = Raise("none")

\* The storage client and the node before any call.
StorageIdle ==
    /\ ipfs_config = [provider |-> "ipfs", api_key |-> <<>>, api_secret |-> <<>>]
    /\ http = <<>>
    /\ storageOp = NoOp
    /\ storageOut = Raise("none")

LedgerIdle ==
    /\ ledger = <<>>
    /\ rpc = <<>>
    /\ threads = <<>>
    /\ history = <<>>

ExtIdle == StorageIdle /\ LedgerIdle

\* A FeedbackAuth dictionary not yet built.
NoAuth ==
    [agentId |-> 0, clientAddress |-> <<>>, indexLimit |-> 0, expiry |-> 0,
     chainId |-> 0, identityRegistry |-> <<>>, signerAddress |-> <<>>]

InitCodec ==
    /\ call1 = NoCall
    /\ call2 = NoCall
    /\ identity_registry_address = <<>>
    /\ auth = NoAuth
    /\ signLog = <<>>
    /\ sent = <<>>
    /\ fbOut = Raise("none")
    /\ FacadeIdle
    /\ ExtIdle
    /\ \/ /\ pc = "buffer" /\ src = "buffer"
          /\ buf \in Buffers /\ cid = <<>> /\ uri = <<>>
       \/ /\ pc = "ident" /\ src = "caller"
          /\ buf = <<>> /\ cid \in RawStrings /\ uri = cid

\* generate_random_cidv0: the base-58 encoding of the buffer.
GenerateCidv0 ==
    /\ pc = "buffer"
    /\ cid' = encode_base58(buf)
    /\ uri' = cid'
    /\ pc' = "ident"
    /\ UNCHANGED <<buf, src, call1, call2>>
    /\ UNCHANGED authVars
    /\ UNCHANGED extVars
    /\ UNCHANGED facadeVars

\* request_uri = f"ipfs://{cid1}"
AddScheme ==
    /\ pc = "called"
    /\ uri' = IpfsScheme \o uri
    /\ pc' = "uri"
    /\ UNCHANGED <<buf, src, cid, call1, call2>>
    /\ UNCHANGED authVars
    /\ UNCHANGED extVars
    /\ UNCHANGED facadeVars

FirstCall(fn) ==
    /\ pc = "ident"
    /\ call1' = [fn |-> fn, arg |-> uri, out |-> Apply(fn, uri)]
    /\ pc' = "called"
    /\ UNCHANGED <<buf, src, cid, uri, call2>>
    /\ UNCHANGED authVars
    /\ UNCHANGED extVars
    /\ UNCHANGED facadeVars

SecondCall(fn) ==
    /\ pc \in {"called", "uri"}
    /\ call2' = [fn |-> fn, arg |-> uri, out |-> Apply(fn, uri)]
    /\ pc' = "done"
    /\ UNCHANGED <<buf, src, cid, uri, call1>>
    /\ UNCHANGED authVars
    /\ UNCHANGED extVars
    /\ UNCHANGED facadeVars

NextCodec ==
    \/ GenerateCidv0
    \/ AddScheme
    \/ \E fn \in Functions : FirstCall(fn)
    \/ \E fn \in Functions : SecondCall(fn)

SpecCodec == InitCodec /\ [][NextCodec]_vars

-----------------------------------------------------------------------------
(* Feedback authorization: reputation.py                                   *)

\* Bounds of the tokens built.
MaxAgentId == 2
MaxIndexLimit == 2

\* The FeedbackAuth fields, in the order of the signed tuple.
IntFields == {"agentId", "indexLimit", "expiry", "chainId"}
AddrFields == {"clientAddress", "identityRegistry", "signerAddress"}

\* --- characters and hex ----------------------------------------------------

LowerOf(ch) ==
    CASE ch = "A" -> "a" [] ch = "B" -> "b" [] ch = "C" -> "c"
      [] ch = "D" -> "d" [] ch = "E" -> "e" [] ch = "F" -> "f"
      [] ch = "X" -> "x" [] OTHER -> ch

UpperOf(ch) ==
    CASE ch = "a" -> "A" [] ch = "b" -> "B" [] ch = "c" -> "C"
      [] ch = "d" -> "D" [] ch = "e" -> "E" [] ch = "f" -> "F"
      [] OTHER -> ch

\* str.lower() on a hex string.
ToLower(s) == [i \in 1..Len(s) |-> LowerOf(s[i])]

IsHexDigit(ch) ==
    ch \in {"0", "1", "2", "3", "4", "5", "6", "7", "8", "9",
            "a", "b", "c", "d", "e", "f", "A", "B", "C", "D", "E", "F"}

IsHexLetter(ch) == IsHexDigit(ch) /\ LowerOf(ch) \in {"a", "b", "c", "d", "e", "f"}

\* int(ch, 16) for a hex digit of either case.
HexDigitValue(ch) ==
    CASE ch = "0" -> 0 [] ch = "1" -> 1 [] ch = "2" -> 2 [] ch = "3" -> 3
      [] ch = "4" -> 4 [] ch = "5" -> 5 [] ch = "6" -> 6 [] ch = "7" -> 7
      [] ch = "8" -> 8 [] ch = "9" -> 9
      [] ch \in {"a", "A"} -> 10 [] ch \in {"b", "B"} -> 11
      [] ch \in {"c", "C"} -> 12 [] ch \in {"d", "D"} -> 13
      [] ch \in {"e", "E"} -> 14 [] ch \in {"f", "F"} -> 15

\* bytes.fromhex(s): ValueError on an odd length or a character that is no
\* hex digit.
bytes_fromhex(s) ==
    IF Len(s) % 2 # 0 \/ \E i \in 1..Len(s) : ~IsHexDigit(s[i])
    THEN Raise("ValueError")
    ELSE Ok([i \in 1..(Len(s) \div 2) |->
                16 * HexDigitValue(s[2 * i - 1]) + HexDigitValue(s[2 * i])])

\* --- keccak-256 -----------------------------------------------------------

\* Web3.keccak: the digest is not computed; it is the value determined by its
\* preimage and nothing else (no two preimages share a digest).
Keccak(data) == [kind |-> "keccak256", data |-> data]

\* bytes(32)
ZeroBytes32 == [kind |-> "raw", data |-> Repeat(0, 32)]

\* --- addresses --------------------------------------------------------------

\* The hex digits of an address string, with or without its 0x prefix.
HexBody(s) ==
    IF Len(s) >= 2 /\ s[1] = "0" /\ s[2] \in {"x", "X"} THEN Drop(s, 2) ELSE s

\* eth_utils.is_hex_address
IsHexAddress(s) ==
    Len(HexBody(s)) = 40 /\ \A i \in 1..40 : IsHexDigit(HexBody(s)[i])

\* The EIP-55 case of the hex digit at position i of the lower-case address
\* body: upper case where the matching digit of the keccak-256 digest of the
\* body is 8 or more.  The digest is not computed; a fixed function of the body
\* and the position stands for that digit.
ChecksumUpper(body, i) == (HexDigitValue(body[i]) + i) % 2 = 0

ChecksumForm(lower_body) ==
    <<"0", "x">> \o
    [i \in 1..40 |->
        IF IsHexLetter(lower_body[i]) /\ ChecksumUpper(lower_body, i)
        THEN UpperOf(lower_body[i]) ELSE lower_body[i]]

\* An address normalisation that returns its argument as it is.
to_checksum_address_identity(s) ==
    IF ~IsHexAddress(s) THEN Raise("InvalidAddress") ELSE Ok(s)

\* Web3.to_checksum_address: any case is accepted, the EIP-55 form returned.
to_checksum_address(s) ==
    IF ~IsHexAddress(s) THEN Raise("InvalidAddress")
    ELSE Ok(ChecksumForm(ToLower(HexBody(s))))

\* eth_utils.is_address, as eth_abi's address encoder applies it: a hex
\* address of one case, or of mixed case with a valid checksum.
IsAddress(s) ==
    /\ IsHexAddress(s)
    /\ LET body == HexBody(s)
       IN  \/ body = ToLower(body)
           \/ body = [i \in 1..40 |-> UpperOf(body[i])]
           \/ <<"0", "x">> \o body = ChecksumForm(ToLower(body))

\* --- ABI encoding -----------------------------------------------------------

\* The k-th least significant byte of n, 0 <= n < 2^31.
ByteAt(n, k) == IF k >= 4 THEN 0 ELSE (n \div (256 ^ k)) % 256

\* eth_abi's uint256 word: 32 bytes, big-endian.
UintWord(n) == [i \in 1..32 |-> ByteAt(n, 32 - i)]

\* eth_abi's address word: the 20 bytes of the address behind 12 zero bytes.
AddressWord(s) ==
    [i \in 1..32 |->
        IF i <= 12 THEN 0
        ELSE 16 * HexDigitValue(HexBody(s)[2 * (i - 12) - 1])
             + HexDigitValue(HexBody(s)[2 * (i - 12)])]

\* The tuple with indexLimit and expiry in each other's place.
abi_encode_tuple_misordered(a) ==
    UintWord(a.agentId) \o AddressWord(a.clientAddress)
    \o UintWord(a.expiry) \o UintWord(a.indexLimit) \o UintWord(a.chainId)
    \o AddressWord(a.identityRegistry) \o AddressWord(a.signerAddress)

\* encode(["uint256", "address", "uint256", "uint256", "uint256", "address",
\*         "address"], [...]) for values eth_abi accepts.
abi_encode_tuple(a) ==
    UintWord(a.agentId) \o AddressWord(a.clientAddress)
    \o UintWord(a.indexLimit) \o UintWord(a.expiry) \o UintWord(a.chainId)
    \o AddressWord(a.identityRegistry) \o AddressWord(a.signerAddress)

\* The first statement of sign_feedback_auth: the addresses normalised, the
\* values checked by eth_abi, the tuple encoded.
encode_feedback_auth(a) ==
    LET client   == to_checksum_address(a.clientAddress)
        registry == to_checksum_address(a.identityRegistry)
        signer   == to_checksum_address(a.signerAddress)
    IN  IF ~client.ok THEN client
        ELSE IF ~registry.ok THEN registry
        ELSE IF ~signer.ok THEN signer
        ELSE IF \E f \in IntFields : a[f] < 0 THEN Raise("ValueOutOfBounds")
        ELSE IF \E x \in {client.val, registry.val, signer.val} : ~IsAddress(x)
             THEN Raise("EncodingTypeError")
        ELSE Ok(abi_encode_tuple(
                 [a EXCEPT !.clientAddress = client.val,
                           !.identityRegistry = registry.val,
                           !.signerAddress = signer.val]))

\* A serialization that keeps the signature as the adapter returned it.
sig_hex_keep_prefix(signature) == signature

\* sig_hex = signature[2:] if signature.startswith('0x') else signature
sig_hex(signature) ==
    IF StartsWith(signature, <<"0", "x">>) THEN Drop(signature, 2) ELSE signature

\* message_hash = Web3.keccak(encoded): what sign_feedback_auth hands to
\* adapter.sign_message.
message_hash(encoded) == Keccak(encoded)

\* len(message) of a bytes value: a keccak-256 digest has 32 bytes.
ByteLength(m) == IF m.kind = "keccak256" THEN 32 ELSE Len(m.data)

\* str(n).encode() for 0 <= n < 1000
DecimalBytes(n) ==
    IF n < 10 THEN <<48 + n>>
    ELSE IF n < 100 THEN <<48 + (n \div 10), 48 + (n % 10)>>
    ELSE <<48 + (n \div 100), 48 + ((n \div 10) % 10), 48 + (n % 10)>>

\* encode_defunct(primitive=message): version "E", header
\* "thereum Signed Message:\n" and the decimal length, body the message.
encode_defunct(message) ==
    [version |-> <<69>>,
     header  |-> <<116, 104, 101, 114, 101, 117, 109, 32, 83, 105, 103, 110,
                   101, 100, 32, 77, 101, 115, 115, 97, 103, 101, 58, 10>>
                 \o DecimalBytes(ByteLength(message)),
     body    |-> message]

\* A signer that signs the bytes it is given as they are.
sign_message_hash_raw(message) == message

\* Web3Adapter.sign_message: the hash that is signed is the keccak-256 digest
\* of 0x19, the version, the header and the body of the signable message.
sign_message_hash(message) ==
    LET signable_message == encode_defunct(message)
    IN  [kind |-> "keccak256",
         data |-> <<25>> \o signable_message.version \o signable_message.header,
         body |-> signable_message.body]

\* A serialization without the leading 0x.
sign_feedback_auth_no_prefix(a, signature) ==
    LET encoded == encode_feedback_auth(a)
    IN  IF ~encoded.ok THEN encoded
        ELSE Ok(BytesToHex(encoded.val) \o sig_hex(signature))

\* sign_feedback_auth, given what adapter.sign_message returns for the digest.
sign_feedback_auth(a, signature) ==
    LET encoded == encode_feedback_auth(a)
    IN  IF ~encoded.ok THEN encoded
        ELSE Ok(<<"0", "x">> \o BytesToHex(encoded.val) \o sig_hex(signature))

\* A builder that takes expiry and index limit in each other's place.
create_feedback_auth_swapped(agent_id, client_address, index_limit, expiry, chain_id, signer_address) ==
    [agentId          |-> agent_id,
     clientAddress    |-> client_address,
     indexLimit       |-> expiry,
     expiry           |-> index_limit,
     chainId          |-> chain_id,
     identityRegistry |-> identity_registry_address,
     signerAddress    |-> signer_address]

\* create_feedback_auth
create_feedback_auth(agent_id, client_address, index_limit, expiry, chain_id, signer_address) ==
    [agentId          |-> agent_id,
     clientAddress    |-> client_address,
     indexLimit       |-> index_limit,
     expiry           |-> expiry,
     chainId          |-> chain_id,
     identityRegistry |-> identity_registry_address,
     signerAddress    |-> signer_address]

\* --- inputs -----------------------------------------------------------------

\* An address of one repeated hex digit / of two alternating ones.
AddrOf(ch) == <<"0", "x">> \o Repeat(ch, 40)
AddrAlternating(c1, c2) ==
    <<"0", "x">> \o [i \in 1..40 |-> IF i % 2 = 1 THEN c1 ELSE c2]

\* IDENTITY_REGISTRY of examples/test_validation.py
IDENTITY_REGISTRY ==
    <<"0", "x", "8", "0", "0", "4", "A", "b", "d", "D", "A", "9", "b", "8",
      "7", "7", "1", "8", "7", "b", "F", "8", "6", "5", "e", "D", "1", "d",
      "8", "B", "5", "A", "4", "1", "D", "a", "3", "c", "4", "9", "9", "7">>

RegistryAddrs == {IDENTITY_REGISTRY, ToLower(IDENTITY_REGISTRY)}
ClientAddrs == {AddrOf("a"), AddrAlternating("A", "a")}
SignerAddrs == {AddrOf("c")}

\* int(time.time()) + 3600 and the chain id of the local node
ExpirySample == 1700003600
ChainIdSample == 31337

\* What Web3Adapter.sign_message may return: the hex of a 65-byte signature,
\* with a 0x prefix or without one (HexBytes.hex() differs between versions).
SignatureBytes == Repeat(171, 32) \o Repeat(18, 32) \o <<27>>
Signatures == {BytesToHex(SignatureBytes), <<"0", "x">> \o BytesToHex(SignatureBytes)}

None == [some |-> FALSE, val |-> <<>>]
Some(v) == [some |-> TRUE, val |-> v]

\* Tags as UTF-8 bytes: absent, "excellent".
Tags == {None, Some(<<101, 120, 99, 101, 108, 108, 101, 110, 116>>)}

Scores == {95, 101}

\* The dictionaries a caller may derive from one it holds: a field changed,
\* two fields exchanged, the letter case of an address changed.
Variations(a) ==
    {[a EXCEPT ![f] = a[g], ![g] = a[f]] : f \in IntFields, g \in IntFields}
    \cup {[a EXCEPT ![f] = a[g], ![g] = a[f]] : f \in AddrFields, g \in AddrFields}
    \cup {[a EXCEPT ![f] = a[f] + 1] : f \in IntFields}
    \cup {[a EXCEPT ![f] = ToLower(a[f])] : f \in AddrFields}
    \cup {[a EXCEPT ![f] = <<"0", "x">> \o [i \in 1..40 |-> UpperOf(HexBody(a[f])[i])]] :
              f \in AddrFields}

\* --- the agent owner and the client ----------------------------------------

InitAuth ==
    /\ pc = "start"
    /\ identity_registry_address \in RegistryAddrs
    /\ auth = NoAuth
    /\ signLog = <<>>
    /\ sent = <<>>
    /\ fbOut = Raise("none")
    /\ FacadeIdle
    /\ buf = <<>> /\ src = "caller" /\ cid = <<>> /\ uri = <<>>
    /\ call1 = NoCall /\ call2 = NoCall
    /\ ExtIdle

CreateFeedbackAuth ==
    /\ pc = "start"
    /\ \E agent_id \in 1..MaxAgentId, client_address \in ClientAddrs,
          index_limit \in 1..MaxIndexLimit, signer_address \in SignerAddrs :
          auth' = create_feedback_auth(agent_id, client_address, index_limit,
                                       ExpirySample, ChainIdSample, signer_address)
    /\ pc' = "created"
    /\ UNCHANGED <<identity_registry_address, signLog, sent, fbOut>>
    /\ UNCHANGED codecVars
    /\ UNCHANGED extVars
    /\ UNCHANGED facadeVars

\* The caller changes the dictionary before it is signed again.
EditAuth ==
    /\ pc = "signed"
    /\ Len(signLog) = 1
    /\ auth' \in Variations(auth)
    /\ pc' = "created"
    /\ UNCHANGED <<identity_registry_address, signLog, sent, fbOut>>
    /\ UNCHANGED codecVars
    /\ UNCHANGED extVars
    /\ UNCHANGED facadeVars

\* sign_feedback_auth(auth); the log keeps the encoded tuple, the digest handed
\* to adapter.sign_message, the signature it returned and the result.
SignFeedbackAuth ==
    /\ pc = "created"
    /\ LET encoded == encode_feedback_auth(auth)
       IN  \E signature \in Signatures :
              signLog' = Append(signLog,
                  [auth      |-> auth,
                   encoded   |-> encoded,
                   message   |-> IF encoded.ok THEN message_hash(encoded.val)
                                 ELSE ZeroBytes32,
                   signed    |-> IF encoded.ok
                                 THEN sign_message_hash(message_hash(encoded.val))
                                 ELSE ZeroBytes32,
                   signature |-> IF encoded.ok THEN signature ELSE <<>>,
                   out       |-> sign_feedback_auth(auth, signature)])
    /\ pc' = "signed"
    /\ UNCHANGED <<identity_registry_address, auth, sent, fbOut>>
    /\ UNCHANGED codecVars
    /\ UNCHANGED extVars
    /\ UNCHANGED facadeVars

\* A conversion that hashes the empty string as it hashes any other.
TagBytes_hash_empty(tag) == IF tag.some THEN Keccak(tag.val) ELSE ZeroBytes32

\* Web3.keccak(text=tag) if tag else bytes(32)
TagBytes(tag) == IF tag.some /\ tag.val # <<>> THEN Keccak(tag.val) ELSE ZeroBytes32

\* give_feedback with the authorization signed last.
GiveFeedback ==
    /\ pc = "signed"
    /\ signLog[Len(signLog)].out.ok
    /\ LET feedback_auth == signLog[Len(signLog)].out.val
           auth_bytes == bytes_fromhex(Drop(feedback_auth, 2))
       IN  \E agent_id \in {1, MaxAgentId}, score \in Scores, tag1 \in Tags :
              IF score < 0 \/ score > 100
              THEN /\ fbOut' = Raise("InvalidScore")
                   /\ sent' = sent
              ELSE IF ~auth_bytes.ok
              THEN /\ fbOut' = auth_bytes
                   /\ sent' = sent
              ELSE /\ sent' = Append(sent,
                          [function_name |-> "giveFeedback",
                           agent_id      |-> agent_id,
                           score         |-> score,
                           tag1          |-> TagBytes(tag1),
                           tag2          |-> TagBytes(None),
                           fileuri       |-> <<>>,
                           filehash      |-> ZeroBytes32,
                           feedbackAuth  |-> auth_bytes.val])
                   /\ fbOut' = Ok(<<"t", "x">>)
    /\ pc' = "sent"
    /\ UNCHANGED <<identity_registry_address, auth, signLog>>
    /\ UNCHANGED codecVars
    /\ UNCHANGED extVars
    /\ UNCHANGED facadeVars

NextAuth ==
    \/ CreateFeedbackAuth
    \/ EditAuth
    \/ SignFeedbackAuth
    \/ GiveFeedback

SpecAuth == InitAuth /\ [][NextAuth]_vars

-----------------------------------------------------------------------------
(* The facade over the adapter: identity.py, validation.py, reputation.py   *)

\* Bound of the registry: the agents it may hold.
MaxRegistered == 2

\* --- UTF-8: Python strings are sequences of code points --------------------

IsSurrogate(c) == c >= 55296 /\ c <= 57343

Utf8OfCodePoint(c) ==
    IF c < 128 THEN <<c>>
    ELSE IF c < 2048 THEN <<192 + (c \div 64), 128 + (c % 64)>>
    ELSE IF c < 65536
         THEN <<224 + (c \div 4096), 128 + ((c \div 64) % 64), 128 + (c % 64)>>
    ELSE <<240 + (c \div 262144), 128 + ((c \div 4096) % 64),
           128 + ((c \div 64) % 64), 128 + (c % 64)>>

RECURSIVE Utf8Concat(_)
Utf8Concat(str) ==
    IF str = <<>> THEN <<>>
    ELSE Utf8OfCodePoint(Head(str)) \o Utf8Concat(Tail(str))

\* value.encode("utf-8")
utf8_encode(str) ==
    IF \E i \in 1..Len(str) : IsSurrogate(str[i]) THEN Raise("UnicodeEncodeError")
    ELSE Ok(Utf8Concat(str))

IsContinuation(b) == b >= 128 /\ b <= 191

\* The length of the well-formed UTF-8 sequence that starts at b[i]; 0 when
\* there is none (a stray continuation byte, an overlong or truncated
\* sequence, a surrogate, a byte above 0xF4).
Utf8SeqLen(b, i) ==
    LET b1 == b[i]
        n  == Len(b)
    IN  IF b1 < 128 THEN 1
        ELSE IF b1 >= 194 /\ b1 <= 223 /\ i + 1 <= n /\ IsContinuation(b[i + 1])
             THEN 2
        ELSE IF /\ b1 >= 224 /\ b1 <= 239 /\ i + 2 <= n
                /\ IsContinuation(b[i + 1]) /\ IsContinuation(b[i + 2])
                /\ (b1 = 224 => b[i + 1] >= 160)
                /\ (b1 = 237 => b[i + 1] <= 159)
             THEN 3
        ELSE IF /\ b1 >= 240 /\ b1 <= 244 /\ i + 3 <= n
                /\ IsContinuation(b[i + 1]) /\ IsContinuation(b[i + 2])
                /\ IsContinuation(b[i + 3])
                /\ (b1 = 240 => b[i + 1] >= 144)
                /\ (b1 = 244 => b[i + 1] <= 143)
             THEN 4
        ELSE 0

CodePointAt(b, i, k) ==
    CASE k = 1 -> b[i]
      [] k = 2 -> (b[i] - 192) * 64 + (b[i + 1] - 128)
      [] k = 3 -> (b[i] - 224) * 4096 + (b[i + 1] - 128) * 64 + (b[i + 2] - 128)
      [] OTHER -> (b[i] - 240) * 262144 + (b[i + 1] - 128) * 4096
                  + (b[i + 2] - 128) * 64 + (b[i + 3] - 128)

\* A decoder that puts U+FFFD in the place of each byte it cannot decode.
RECURSIVE Utf8DecodeReplaceFrom(_, _)
Utf8DecodeReplaceFrom(b, i) ==
    IF i > Len(b) THEN <<>>
    ELSE LET k == Utf8SeqLen(b, i)
         IN  IF k = 0 THEN <<65533>> \o Utf8DecodeReplaceFrom(b, i + 1)
             ELSE <<CodePointAt(b, i, k)>> \o Utf8DecodeReplaceFrom(b, i + k)

utf8_decode_replace(b) == Ok(Utf8DecodeReplaceFrom(b, 1))

RECURSIVE Utf8DecodeFrom(_, _)
Utf8DecodeFrom(b, i) ==
    IF i > Len(b) THEN Ok(<<>>)
    ELSE LET k == Utf8SeqLen(b, i)
         IN  IF k = 0 THEN Raise("UnicodeDecodeError")
             ELSE LET rest == Utf8DecodeFrom(b, i + k)
                  IN  IF ~rest.ok THEN rest
                      ELSE Ok(<<CodePointAt(b, i, k)>> \o rest.val)

\* bytes.decode("utf-8"), strict.
utf8_decode(b) == Utf8DecodeFrom(b, 1)

\* --- values as the adapter returns them ------------------------------------

\* The code point of a lower-case hex digit, and the character of a code point
\* ("?" for a code point that is no hex digit).
CodePointOfHexChar(ch) ==
    IF HexDigitValue(ch) < 10 THEN 48 + HexDigitValue(ch) ELSE 87 + HexDigitValue(ch)

CharOfCodePoint(c) ==
    IF c >= 48 /\ c <= 57 THEN HexDigits[c - 47]
    ELSE IF c >= 97 /\ c <= 102 THEN HexDigits[c - 86]
    ELSE IF c >= 65 /\ c <= 70 THEN UpperOf(HexDigits[c - 54])
    ELSE "?"

BytesValue(b) == [type |-> "bytes", val |-> b]
StrValue(str) == [type |-> "str", val |-> str]

\* A bytes value as adapter.call returns it: bytes, or the 0x hex string.
AdapterBytes(format, b) ==
    IF format = "bytes" THEN BytesValue(b)
    ELSE StrValue(<<48, 120>> \o
                  [i \in 1..(2 * Len(b)) |-> CodePointOfHexChar(BytesToHex(b)[i])])

\* adapter.call raised instead of returning.
CallRaised == [type |-> "raised", val |-> <<>>]

\* A conversion that decodes leniently.
bytes_to_string_lossy(bytes_value) ==
    IF bytes_value.type = "bytes" THEN utf8_decode_replace(bytes_value.val)
    ELSE IF bytes_value.type = "str" /\ StartsWith(bytes_value.val, <<48, 120>>)
    THEN LET hex_str == Drop(bytes_value.val, 2)
             byte_array == bytes_fromhex([i \in 1..Len(hex_str) |->
                                              CharOfCodePoint(hex_str[i])])
         IN  IF ~byte_array.ok THEN byte_array
             ELSE utf8_decode_replace(byte_array.val)
    ELSE Ok(bytes_value.val)

\* IdentityClient._bytes_to_string
bytes_to_string(bytes_value) ==
    IF bytes_value.type = "bytes" THEN utf8_decode(bytes_value.val)
    ELSE IF bytes_value.type = "str" /\ StartsWith(bytes_value.val, <<48, 120>>)
    THEN LET hex_str == Drop(bytes_value.val, 2)
             byte_array == bytes_fromhex([i \in 1..Len(hex_str) |->
                                              CharOfCodePoint(hex_str[i])])
         IN  IF ~byte_array.ok THEN byte_array
             ELSE utf8_decode(byte_array.val)
    ELSE Ok(bytes_value.val)

\* --- adapter.send -----------------------------------------------------------

TxHash == <<"0", "x", "t", "x">>

\* A decoded event: its name and its arguments, by name or by position.
Event(name, has_agentId, agentId, has_0, arg0) ==
    [name |-> name,
     args |-> [has_agentId |-> has_agentId, agentId |-> agentId,
               has_0 |-> has_0, arg0 |-> arg0]]

\* The events an adapter may decode from the receipt of a mined register
\* transaction that created agent id: the contract's logs in order, those the
\* ABI does not decode left out.
RegisterEvents(id) ==
    {<<>>,
     <<Event("Transfer", FALSE, 0, FALSE, 0)>>,
     <<Event("Registered", TRUE, id, FALSE, 0)>>,
     <<Event("Transfer", FALSE, 0, FALSE, 0), Event("Registered", TRUE, id, FALSE, 0)>>,
     <<Event("Registered", FALSE, 0, TRUE, id)>>,
     <<Event("Registered", TRUE, id, FALSE, 0), Event("Registered", TRUE, id + 1, FALSE, 0)>>,
     <<Event("Registered", FALSE, 0, FALSE, 0)>>}

SendRaised(e) ==
    [ok |-> FALSE, err |-> e, status |-> 0, has_events |-> FALSE, events |-> <<>>]

SendReturned(status, has_events, events) ==
    [ok |-> TRUE, err |-> "none", status |-> status,
     has_events |-> has_events, events |-> events]

\* What adapter.send may do: raise for want of an account, fail to submit the
\* transaction, or return the receipt of the mined transaction, whose status
\* is 1 (executed, with the events decoded from its logs) or 0 (reverted, no
\* logs).  Web3Adapter always returns an "events" list; another adapter may
\* return none.
SendOutcomes(events_if_mined) ==
    IF ~adapterCfg.account THEN {SendRaised("AccountRequired")}
    ELSE {SendRaised("TransportError"), SendReturned(0, TRUE, <<>>)}
         \cup {SendReturned(1, TRUE, ev) : ev \in events_if_mined}
         \cup {SendReturned(1, FALSE, <<>>)}

SendRequest(function_name, args, out) ==
    [kind |-> "send", function_name |-> function_name, args |-> args, out |-> out]

CallRequest(function_name, args, out) ==
    [kind |-> "call", function_name |-> function_name, args |-> args, out |-> out]

\* --- identity.py ------------------------------------------------------------

Registered(events) == {i \in 1..Len(events) : events[i].name = "Registered"}

FirstRegistered(events) ==
    events[CHOOSE i \in Registered(events) : \A j \in Registered(events) : i <= j]

LastRegistered(events) ==
    events[CHOOSE i \in Registered(events) : \A j \in Registered(events) : i >= j]

\* An extraction that takes the last Registered event and falls back to 0.
extract_agent_id_lenient(send_result) ==
    IF send_result.has_events /\ Registered(send_result.events) # {}
    THEN Ok(LastRegistered(send_result.events).args.agentId)
    ELSE Ok(0)

\* IdentityClient._extract_agent_id_from_receipt
extract_agent_id_from_receipt(send_result) ==
    IF send_result.has_events /\ Registered(send_result.events) # {}
    THEN LET args == FirstRegistered(send_result.events).args
         IN  IF args.has_agentId THEN Ok(args.agentId)
             ELSE IF args.has_0 THEN Ok(args.arg0)
             ELSE Raise("TypeError")
    ELSE Raise("EventNotFound")

\* The metadata strings callers store: "0x41", one non-ASCII letter, "", and
\* a lone surrogate, which has no UTF-8 encoding.
MetaStrings == {<<48, 120, 52, 49>>, <<233>>, <<>>, <<55357>>}

\* Bytes the registry may hold that no facade call stored.
ForeignBytes == {<<255>>, <<195>>, <<48, 120>>}

Keys == {"agentName"}

Cells == (1..MaxRegistered) \X Keys

\* A stored value; text is the string a facade call stored, when one did.
Stored(b, has_text, text) == [value |-> b, has_text |-> has_text, text |-> text]

\* A metadata value formatted byte per code point.
encode_metadata_value_latin1(value) ==
    IF \E i \in 1..Len(value) : value[i] > 255 THEN Raise("UnicodeEncodeError")
    ELSE Ok(value)

\* m["value"].encode("utf-8") and value.encode("utf-8")
encode_metadata_value(value) == utf8_encode(value)

InitIdentity ==
    /\ pc = "facade"
    /\ adapterCfg \in [account : BOOLEAN, format : {"bytes", "hex"}]
    /\ \E b \in ForeignBytes \cup {<<>>} :
          chain = [registered |-> 0,
                   metadata |-> [c \in Cells |->
                                    IF c[1] = 1 THEN Stored(b, FALSE, <<>>)
                                    ELSE Stored(<<>>, FALSE, <<>>)]]
    /\ lastOp = NoOp
    /\ adapterLog = <<>>
    /\ result = Raise("none")
    /\ buf = <<>> /\ src = "caller" /\ cid = <<>> /\ uri = <<>>
    /\ call1 = NoCall /\ call2 = NoCall
    /\ ExtIdle
    /\ identity_registry_address = IDENTITY_REGISTRY
    /\ auth = NoAuth /\ signLog = <<>> /\ sent = <<>> /\ fbOut = Raise("none")

\* The registry after a mined register transaction with these metadata
\* entries.
ChainRegister(entries) ==
    LET id == chain.registered + 1
    IN  [registered |-> id,
         metadata |-> [c \in Cells |->
             IF c[1] = id /\ \E k \in 1..Len(entries) : entries[k].key = c[2]
             THEN LET k == CHOOSE k \in 1..Len(entries) : entries[k].key = c[2]
                  IN  Stored(entries[k].value, TRUE, entries[k].text)
             ELSE chain.metadata[c]]]

\* register(), register_with_uri(token_uri), register_with_metadata(token_uri,
\* metadata): the call, adapter.send and the extraction of the agent id.
Register(op, metadata) ==
    /\ chain.registered < MaxRegistered
    /\ LET formatted == [k \in 1..Len(metadata) |->
                            [key |-> metadata[k].key,
                             encoded |-> encode_metadata_value(metadata[k].value),
                             text |-> metadata[k].value]]
       IN  IF \E k \in 1..Len(formatted) : ~formatted[k].encoded.ok
           THEN /\ result' = Raise("UnicodeEncodeError")
                /\ adapterLog' = <<>>
                /\ chain' = chain
           ELSE LET entries == [k \in 1..Len(formatted) |->
                                   [key |-> formatted[k].key,
                                    value |-> formatted[k].encoded.val,
                                    text |-> formatted[k].text]]
                IN  \E out \in SendOutcomes(RegisterEvents(chain.registered + 1)) :
                       /\ adapterLog' = <<SendRequest("register", entries, out)>>
                       /\ chain' = IF out.ok /\ out.status = 1
                                   THEN ChainRegister(entries) ELSE chain
                       /\ result' =
                             IF ~out.ok THEN Raise(out.err)
                             ELSE LET agent_id == extract_agent_id_from_receipt(out)
                                  IN  IF ~agent_id.ok THEN agent_id
                                      ELSE Ok([agentId |-> agent_id.val,
                                               txHash |-> TxHash])
    /\ lastOp' = [op |-> op, metadata |-> metadata, before |-> chain.registered]
    /\ UNCHANGED <<pc, adapterCfg>>
    /\ UNCHANGED codecVars
    /\ UNCHANGED extVars
    /\ UNCHANGED authVars

RegisterAgent ==
    \/ Register("register", <<>>)
    \/ Register("register_with_uri", <<>>)
    \/ \E value \in MetaStrings, key \in Keys :
          Register("register_with_metadata", <<[key |-> key, value |-> value]>>)
    \/ Register("register_with_metadata", <<>>)

\* set_metadata(agent_id, key, value)
SetMetadata ==
    /\ \E agent_id \in 1..MaxRegistered, key \in Keys, value \in MetaStrings :
          LET encoded == encode_metadata_value(value)
          IN  /\ lastOp' = [op |-> "set_metadata", agent_id |-> agent_id,
                            key |-> key, value |-> value]
              /\ IF ~encoded.ok
                 THEN /\ result' = encoded
                      /\ adapterLog' = <<>>
                      /\ chain' = chain
                 ELSE \E out \in SendOutcomes({<<>>}) :
                         /\ adapterLog' = <<SendRequest("setMetadata",
                                               <<agent_id, key, encoded.val>>, out)>>
                         /\ chain' = IF out.ok /\ out.status = 1
                                     THEN [chain EXCEPT !.metadata[<<agent_id, key>>] =
                                               Stored(encoded.val, TRUE, value)]
                                     ELSE chain
                         /\ result' = IF ~out.ok THEN Raise(out.err)
                                      ELSE Ok([txHash |-> TxHash])
    /\ UNCHANGED <<pc, adapterCfg>>
    /\ UNCHANGED codecVars
    /\ UNCHANGED extVars
    /\ UNCHANGED authVars

\* get_metadata(agent_id, key): adapter.call and the conversion of what it
\* returns.
GetMetadata ==
    /\ \E agent_id \in 1..MaxRegistered, key \in Keys :
          LET bytes_value == AdapterBytes(adapterCfg.format,
                                          chain.metadata[<<agent_id, key>>].value)
          IN  /\ lastOp' = [op |-> "get_metadata", agent_id |-> agent_id, key |-> key]
              /\ \/ /\ adapterLog' = <<CallRequest("getMetadata", <<agent_id, key>>,
                                                   bytes_value)>>
                    /\ result' = bytes_to_string(bytes_value)
                 \/ /\ adapterLog' = <<CallRequest("getMetadata", <<agent_id, key>>,
                                                   CallRaised)>>
                    /\ result' = Raise("TransportError")
    /\ UNCHANGED <<pc, adapterCfg, chain>>
    /\ UNCHANGED codecVars
    /\ UNCHANGED extVars
    /\ UNCHANGED authVars

NextIdentity ==
    \/ RegisterAgent
    \/ SetMetadata
    \/ GetMetadata

SpecIdentity == InitIdentity /\ [][NextIdentity]_vars

-----------------------------------------------------------------------------
(* Calls of the reputation and validation facades                           *)

\* give_feedback: score < 0 or score > 100
score_rejected_exclusive(score) == score <= 0 \/ score >= 100

score_rejected(score) == score < 0 \/ score > 100

\* validation_response: response < 0 or response > 100
response_rejected(response) == response < 0 \/ response > 100

\* The tag argument a client constructed with this configuration passes to
\* the adapter: the constructors take the adapter and the contract addresses,
\* and the conversion reads none of them.
TagBytesUnder(config, tag) == TagBytes(tag)

\* A tag passed as its UTF-8 string.
RawTag(tag) == [kind |-> "utf8", data |-> tag.val]

\* The configurations a facade can be constructed with.
FacadeConfigs ==
    [account : BOOLEAN, format : {"bytes", "hex"},
     identityRegistry : RegistryAddrs]

\* Tags: absent, "", "excellent".
CallTags == Tags \cup {Some(<<>>)}

ScoreSamples == {-1, 0, 95, 100, 101}

\* A token and its signed authorization, as the agent owner hands it out.
SampleAuth ==
    [agentId |-> 1, clientAddress |-> AddrOf("a"), indexLimit |-> 1,
     expiry |-> ExpirySample, chainId |-> ChainIdSample,
     identityRegistry |-> IDENTITY_REGISTRY, signerAddress |-> AddrOf("c")]

SignedSample == sign_feedback_auth(SampleAuth, BytesToHex(SignatureBytes)).val

\* The feedback_auth strings a caller may pass: the signed one, the same cut
\* short by one byte, by the whole signature, to two bytes, to nothing, and
\* one with an odd number of hex digits.
AuthStrings ==
    {SignedSample,
     SubSeq(SignedSample, 1, 578),
     SubSeq(SignedSample, 1, 450),
     <<"0", "x", "1", "2", "3", "4">>,
     <<"0", "x">>,
     <<"0", "x", "1", "2", "3">>}

\* The results getSummary may return: (count, average).
SummaryResults == {<<0, 0>>, <<2, 95>>}

InitCalls ==
    /\ pc = "facade"
    /\ adapterCfg \in [account : BOOLEAN, format : {"bytes"}]
    /\ identity_registry_address \in RegistryAddrs
    /\ chain = [registered |-> 0, metadata |-> <<>>]
    /\ lastOp = NoOp
    /\ adapterLog = <<>>
    /\ result = Raise("none")
    /\ buf = <<>> /\ src = "caller" /\ cid = <<>> /\ uri = <<>>
    /\ call1 = NoCall /\ call2 = NoCall
    /\ ExtIdle
    /\ auth = NoAuth /\ signLog = <<>> /\ sent = <<>> /\ fbOut = Raise("none")

\* A facade call is made by a caller that holds no earlier call's result;
\* nothing else of the state is touched.
CallFrame ==
    /\ lastOp.op = "none"
    /\ UNCHANGED <<pc, adapterCfg, chain, identity_registry_address,
                   auth, signLog, sent, fbOut>>
    /\ UNCHANGED codecVars
    /\ UNCHANGED extVars

\* ReputationClient.give_feedback(agent_id, score, feedback_auth, tag1, tag2)
GiveFeedbackCall ==
    /\ CallFrame
    /\ \E agent_id \in {1}, score \in ScoreSamples, feedback_auth \in AuthStrings,
       tag1 \in CallTags, tag2 \in Tags :
        /\ lastOp' = [op |-> "give_feedback", agent_id |-> agent_id,
                      score |-> score, feedback_auth |-> feedback_auth,
                      tag1 |-> tag1, tag2 |-> tag2]
        /\ IF score_rejected(score)
           THEN /\ result' = Raise("InvalidScore")
                /\ adapterLog' = <<>>
           ELSE LET tag1_bytes == TagBytes(tag1)
                    tag2_bytes == TagBytes(tag2)
                    filehash_bytes == ZeroBytes32
                    fileuri_str == <<>>
                    auth_bytes == bytes_fromhex(Drop(feedback_auth, 2))
                IN  IF ~auth_bytes.ok
                    THEN /\ result' = auth_bytes
                         /\ adapterLog' = <<>>
                    ELSE \E out \in SendOutcomes({<<>>}) :
                            /\ adapterLog' = <<SendRequest("giveFeedback",
                                   [agent_id |-> agent_id, score |-> score,
                                    tag1 |-> tag1_bytes, tag2 |-> tag2_bytes,
                                    fileuri |-> fileuri_str,
                                    filehash |-> filehash_bytes,
                                    feedbackAuth |-> auth_bytes.val], out)>>
                            /\ result' = IF ~out.ok THEN Raise(out.err)
                                         ELSE Ok([txHash |-> TxHash])

\* ValidationClient.validation_response(request_hash, response, tag=tag)
ValidationResponse ==
    /\ CallFrame
    /\ \E response \in ScoreSamples, tag \in CallTags :
        /\ lastOp' = [op |-> "validation_response", response |-> response,
                      tag1 |-> tag]
        /\ IF response_rejected(response)
           THEN /\ result' = Raise("InvalidScore")
                /\ adapterLog' = <<>>
           ELSE LET response_uri_str == <<>>
                    response_hash_bytes == ZeroBytes32
                    tag_bytes == TagBytes(tag)
                IN  \E out \in SendOutcomes({<<>>}) :
                       /\ adapterLog' = <<SendRequest("validationResponse",
                              [response |-> response,
                               responseUri |-> response_uri_str,
                               responseHash |-> response_hash_bytes,
                               tag1 |-> tag_bytes], out)>>
                       /\ result' = IF ~out.ok THEN Raise(out.err)
                                    ELSE Ok([txHash |-> TxHash])

\* ReputationClient.get_summary, ReputationClient.read_all_feedback and
\* ValidationClient.get_summary with tag filters: the adapter.call made and
\* the result converted.
ReadWithTags ==
    /\ CallFrame
    /\ \E op \in {"get_summary", "read_all_feedback", "validation_get_summary"},
       tag1 \in CallTags, tag2 \in Tags, summary \in SummaryResults :
        /\ lastOp' = [op |-> op, agent_id |-> 1, tag1 |-> tag1, tag2 |-> tag2]
        /\ adapterLog' =
              <<CallRequest(
                   IF op = "read_all_feedback" THEN "readAllFeedback" ELSE "getSummary",
                   [agent_id |-> 1, clients |-> <<>>,
                    tag1 |-> TagBytes(tag1),
                    tag2 |-> IF op = "validation_get_summary" THEN ZeroBytes32
                             ELSE TagBytes(tag2)],
                   summary)>>
        /\ result' = IF op = "read_all_feedback"
                     THEN Ok([scores |-> [i \in 1..summary[1] |-> summary[2]]])
                     ELSE Ok([count |-> summary[1], average |-> summary[2]])

\* ReputationClient.create_feedback_auth with any arguments.
CreateFeedbackAuthCall ==
    /\ CallFrame
    /\ \E agent_id \in {0, 1}, client_address \in ClientAddrs \cup {<<>>},
       index_limit \in {0, 1}, expiry \in {0, ExpirySample},
       chain_id \in {ChainIdSample}, signer_address \in SignerAddrs \cup {<<"0", "x">>} :
        /\ lastOp' = [op |-> "create_feedback_auth", agent_id |-> agent_id,
                      client_address |-> client_address,
                      index_limit |-> index_limit, expiry |-> expiry,
                      chain_id |-> chain_id, signer_address |-> signer_address]
        /\ adapterLog' = <<>>
        /\ result' = Ok(create_feedback_auth(agent_id, client_address, index_limit,
                                             expiry, chain_id, signer_address))

\* The caller has taken the result of its call.
CallReturns ==
    /\ lastOp.op # "none"
    /\ lastOp' = NoOp
    /\ adapterLog' = <<>>
    /\ result' = Raise("none")
    /\ UNCHANGED <<pc, adapterCfg, chain, identity_registry_address,
                   auth, signLog, sent, fbOut>>
    /\ UNCHANGED codecVars
    /\ UNCHANGED extVars

NextCalls ==
    \/ CallReturns
    \/ GiveFeedbackCall
    \/ ValidationResponse
    \/ ReadWithTags
    \/ CreateFeedbackAuthCall

SpecCalls == InitCalls /\ [][NextCalls]_vars

-----------------------------------------------------------------------------
(* The storage client: utils/ipfs.py                                       *)

\* Python's truth value of an optional string or dictionary: None and the
\* empty value are false.
Truthy(opt) == opt.some /\ opt.val # <<>>

DEFAULT_NODE_URL == <<"h", "t", "t", "p", ":", "/", "/", "1", "2", "7", ".", "0", ".", "0", ".", "1", ":", "5", "0", "0", "1">>

\* IPFSClientConfig.__init__: "gateway_url or ...", "node_url or ...".
IPFSClientConfig(provider, api_key, api_secret, gateway, node) ==
    [provider |-> provider, api_key |-> api_key, api_secret |-> api_secret,
     gateway_url |-> IF Truthy(gateway) THEN gateway.val ELSE gateway_url,
     node_url |-> IF Truthy(node) THEN node.val ELSE DEFAULT_NODE_URL]

NoSize == [has |-> FALSE, n |-> 0]

IPFSUploadResult(c, u, url, size) == [cid |-> c, uri |-> u, url |-> url, size |-> size]

\* IPFSClient.get_gateway_url
get_gateway_url(cfg, c) == cfg.gateway_url \o c

\* What a storage call did: its outcome and the HTTP requests it issued.
StorageReturn(out, requests) == [out |-> out, http |-> requests]

NoForm == [has |-> FALSE, name |-> <<>>, keyvalues |-> <<>>]

\* One HTTP request: the method, the URL, the file name and the body sent,
\* the pinataMetadata form field, the credentials put in the headers.
HttpRequest(method, url, filename, body, form, credentials) ==
    [method |-> method, url |-> url, filename |-> filename, body |-> body,
     form |-> form, credentials |-> credentials]

\* What the server does with a request: the connection fails (requests raises
\* ConnectionError), the status is an error (raise_for_status raises
\* HTTPError), or a response arrives: its JSON body with or without the
\* identifier and the size, its text.
HttpResponse(kind, has_cid, c, size, text) ==
    [kind |-> kind, has_cid |-> has_cid, cid |-> c, size |-> size, text |-> text]

\* content.encode("utf-8") if isinstance(content, str) else content
content_bytes(content) ==
    IF content.is_str THEN utf8_encode(content.data) ELSE Ok(content.data)

\* response.raise_for_status(); result = response.json(); cid = result[...];
\* return IPFSUploadResult(cid, f"ipfs://{cid}", self.get_gateway_url(cid), ...)
upload_result(cfg, resp, with_size) ==
    IF resp.kind # "ok" THEN Raise(resp.kind)
    ELSE IF ~resp.has_cid THEN Raise("KeyError")
    ELSE Ok(IPFSUploadResult(resp.cid, IpfsScheme \o resp.cid,
                             get_gateway_url(cfg, resp.cid),
                             IF with_size THEN resp.size ELSE NoSize))

PINATA_PIN_FILE_URL == <<"h", "t", "t", "p", "s", ":", "/", "/", "a", "p", "i", ".", "p", "i", "n", "a", "t", "a", ".", "c", "l", "o", "u", "d", "/", "p", "i", "n", "n", "i", "n", "g", "/", "p", "i", "n", "F", "i", "l", "e", "T", "o", "I", "P", "F", "S">>

PINATA_PIN_BY_HASH_URL == <<"h", "t", "t", "p", "s", ":", "/", "/", "a", "p", "i", ".", "p", "i", "n", "a", "t", "a", ".", "c", "l", "o", "u", "d", "/", "p", "i", "n", "n", "i", "n", "g", "/", "p", "i", "n", "B", "y", "H", "a", "s", "h">>

NFT_STORAGE_UPLOAD_URL == <<"h", "t", "t", "p", "s", ":", "/", "/", "a", "p", "i", ".", "n", "f", "t", ".", "s", "t", "o", "r", "a", "g", "e", "/", "u", "p", "l", "o", "a", "d">>

WEB3_STORAGE_UPLOAD_URL == <<"h", "t", "t", "p", "s", ":", "/", "/", "a", "p", "i", ".", "w", "e", "b", "3", ".", "s", "t", "o", "r", "a", "g", "e", "/", "u", "p", "l", "o", "a", "d">>

\* name or "file"
FileName(name) == IF Truthy(name) THEN name.val ELSE <<"f", "i", "l", "e">>

\* A credentials check that fails only when both values are missing.
pinata_credentials_missing_both(cfg) == ~Truthy(cfg.api_key) /\ ~Truthy(cfg.api_secret)

\* not self.config.api_key or not self.config.api_secret
pinata_credentials_missing(cfg) == ~Truthy(cfg.api_key) \/ ~Truthy(cfg.api_secret)

\* not self.config.api_key
api_key_missing(cfg) == ~Truthy(cfg.api_key)

upload_to_pinata(cfg, content, name, metadata, resp) ==
    IF pinata_credentials_missing(cfg)
    THEN StorageReturn(Raise("PinataCredentialsRequired"), <<>>)
    ELSE LET b == content_bytes(content)
             form == IF Truthy(metadata) \/ Truthy(name)
                     THEN [has |-> TRUE,
                           name |-> IF Truthy(name) THEN name.val ELSE <<>>,
                           keyvalues |-> IF Truthy(metadata) THEN metadata.val
                                         ELSE <<>>]
                     ELSE NoForm
         IN  IF ~b.ok THEN StorageReturn(b, <<>>)
             ELSE StorageReturn(
                    upload_result(cfg, resp, TRUE),
                    <<HttpRequest("POST", PINATA_PIN_FILE_URL, FileName(name),
                                  b.val, form,
                                  <<cfg.api_key.val, cfg.api_secret.val>>)>>)

upload_to_nft_storage(cfg, content, name, resp) ==
    IF api_key_missing(cfg)
    THEN StorageReturn(Raise("NftStorageApiKeyRequired"), <<>>)
    ELSE LET b == content_bytes(content)
         IN  IF ~b.ok THEN StorageReturn(b, <<>>)
             ELSE StorageReturn(
                    upload_result(cfg, resp, FALSE),
                    <<HttpRequest("POST", NFT_STORAGE_UPLOAD_URL, <<>>, b.val,
                                  NoForm, <<cfg.api_key.val>>)>>)

upload_to_web3_storage(cfg, content, name, resp) ==
    IF api_key_missing(cfg)
    THEN StorageReturn(Raise("Web3StorageApiKeyRequired"), <<>>)
    ELSE LET b == content_bytes(content)
         IN  IF ~b.ok THEN StorageReturn(b, <<>>)
             ELSE StorageReturn(
                    upload_result(cfg, resp, FALSE),
                    <<HttpRequest("POST", WEB3_STORAGE_UPLOAD_URL,
                                  FileName(name), b.val, NoForm,
                                  <<cfg.api_key.val>>)>>)

upload_to_local_ipfs(cfg, content, name, resp) ==
    LET b == content_bytes(content)
    IN  IF ~b.ok THEN StorageReturn(b, <<>>)
        ELSE StorageReturn(
               upload_result(cfg, resp, TRUE),
               <<HttpRequest("POST", cfg.node_url \o <<"/", "a", "p", "i", "/", "v", "0", "/", "a", "d", "d">>,
                             FileName(name), b.val, NoForm, <<>>)>>)

\* IPFSClient.upload
upload(cfg, content, name, metadata, resp) ==
    CASE cfg.provider = "pinata" -> upload_to_pinata(cfg, content, name, metadata, resp)
      [] cfg.provider = "nftstorage" -> upload_to_nft_storage(cfg, content, name, resp)
      [] cfg.provider = "web3storage" -> upload_to_web3_storage(cfg, content, name, resp)
      [] cfg.provider = "ipfs" -> upload_to_local_ipfs(cfg, content, name, resp)
      [] OTHER -> StorageReturn(Raise("UnsupportedProvider"), <<>>)

\* --- json.dumps(data, indent=2) ---------------------------------------------

\* JSON values: integers, strings, dictionaries (their items in insertion
\* order, the keys distinct).
JInt(n) == [type |-> "int", int |-> n, str |-> <<>>, items |-> <<>>]

JStr(s) == [type |-> "str", int |-> 0, str |-> s, items |-> <<>>]

JDict(items) == [type |-> "dict", int |-> 0, str |-> <<>>, items |-> items]

Item(key, value) == [key |-> key, value |-> value]

Indent(level) == Repeat(32, 2 * level)

\* The text json.dumps(v, indent=2) writes for a value nested level deep:
\* an integer in decimal, a string between quotes (the strings of the model
\* need no escape), "{}" for the empty dictionary, and otherwise one
\* '"key": value' line per item, in the dictionary's own order, separated by
\* ",\n" and indented by two spaces per level.
RECURSIVE json_dumps(_, _)
RECURSIVE json_items(_, _)
json_dumps(v, level) ==
    CASE v.type = "int" -> DecimalBytes(v.int)
      [] v.type = "str" -> <<34>> \o v.str \o <<34>>
      [] v.type = "dict" ->
            IF v.items = <<>> THEN <<123, 125>>
            ELSE <<123, 10>> \o json_items(v.items, level + 1)
                 \o <<10>> \o Indent(level) \o <<125>>

json_items(items, level) ==
    Indent(level) \o <<34>> \o items[1].key \o <<34, 58, 32>>
    \o json_dumps(items[1].value, level)
    \o (IF Len(items) = 1 THEN <<>>
        ELSE <<44, 10>> \o json_items(Tail(items), level))

\* content = json.dumps(data, indent=2)
upload_json_content(data) == [is_str |-> TRUE, data |-> json_dumps(data, 0)]

\* IPFSClient.upload_json
upload_json(cfg, data, name, metadata, resp) ==
    upload(cfg, upload_json_content(data),
           IF Truthy(name) THEN name ELSE Some(<<"d", "a", "t", "a", ".", "j", "s", "o", "n">>), metadata, resp)

\* --- pin, fetch -------------------------------------------------------------

pin_on_pinata(cfg, c, name, resp) ==
    IF pinata_credentials_missing(cfg)
    THEN StorageReturn(Raise("PinataCredentialsRequired"), <<>>)
    ELSE StorageReturn(
           IF resp.kind # "ok" THEN Raise(resp.kind) ELSE Ok(<<>>),
           <<HttpRequest("POST", PINATA_PIN_BY_HASH_URL, <<>>, c,
                         IF Truthy(name)
                         THEN [has |-> TRUE, name |-> name.val, keyvalues |-> <<>>]
                         ELSE NoForm,
                         <<cfg.api_key.val, cfg.api_secret.val>>)>>)

pin_on_local_ipfs(cfg, c, resp) ==
    StorageReturn(
      IF resp.kind # "ok" THEN Raise(resp.kind) ELSE Ok(<<>>),
      <<HttpRequest("POST", cfg.node_url \o <<"/", "a", "p", "i", "/", "v", "0", "/", "p", "i", "n", "/", "a", "d", "d", "?", "a", "r", "g", "=">> \o c,
                    <<>>, <<>>, NoForm, <<>>)>>)

\* A pin that does nothing on a backend without pinning.
pin_silent(cfg, c, name, resp) ==
    CASE cfg.provider = "pinata" -> pin_on_pinata(cfg, c, name, resp)
      [] cfg.provider = "ipfs" -> pin_on_local_ipfs(cfg, c, resp)
      [] OTHER -> StorageReturn(Ok(<<>>), <<>>)

\* IPFSClient.pin
pin(cfg, c, name, resp) ==
    CASE cfg.provider = "pinata" -> pin_on_pinata(cfg, c, name, resp)
      [] cfg.provider = "ipfs" -> pin_on_local_ipfs(cfg, c, resp)
      [] OTHER -> StorageReturn(Raise("PinningNotSupported"), <<>>)

\* A fetch that takes the gateway of the default configuration.
fetch_default_gateway(cfg, cid_or_uri, resp) ==
    StorageReturn(
      IF resp.kind # "ok" THEN Raise(resp.kind) ELSE Ok(resp.text),
      <<HttpRequest("GET", gateway_url \o strip_scheme(cid_or_uri),
                    <<>>, <<>>, NoForm, <<>>)>>)

\* IPFSClient.fetch
fetch(cfg, cid_or_uri, resp) ==
    StorageReturn(
      IF resp.kind # "ok" THEN Raise(resp.kind) ELSE Ok(resp.text),
      <<HttpRequest("GET", cfg.gateway_url \o strip_scheme(cid_or_uri),
                    <<>>, <<>>, NoForm, <<>>)>>)

\* --- the storage client's callers -------------------------------------------

MaxItems == 2

Providers == {"pinata", "nftstorage", "web3storage", "ipfs", "arweave"}

ApiKeys == {None, Some(<<>>), Some(<<"k", "e", "y">>)}

Gateways == {None, Some(<<"h", "t", "t", "p", "s", ":", "/", "/", "g", "w", ".", "e", "x", "a", "m", "p", "l", "e", "/", "i", "p", "f", "s", "/">>)}

\* Identifiers a backend returns: a CIDv0 and a CIDv1, shortened.
ServerCids == {<<"Q", "m", "Y", "w">>, <<"b", "a", "f", "y">>}

Names == {None, Some(<<"a", ".", "j", "s", "o", "n">>)}

Metadatas == {None, Some(<<"project">>)}

\* "hi", "e-acute", a lone surrogate; the byte 0xff.
Contents ==
    {[is_str |-> TRUE, data |-> <<104, 105>>],
     [is_str |-> TRUE, data |-> <<233>>],
     [is_str |-> TRUE, data |-> <<55357>>],
     [is_str |-> FALSE, data |-> <<255>>]}

Responses ==
    {HttpResponse("ConnectionError", FALSE, <<>>, NoSize, <<>>),
     HttpResponse("HTTPError", FALSE, <<>>, NoSize, <<>>),
     HttpResponse("ok", FALSE, <<>>, NoSize, <<123, 125>>),
     HttpResponse("ok", TRUE, <<"Q", "m", "Y", "w">>, [has |-> TRUE, n |-> 2], <<104, 105>>),
     HttpResponse("ok", TRUE, <<"b", "a", "f", "y">>, NoSize, <<104, 105>>)}

JsonKeys == {<<97>>, <<98>>, <<99>>}

\* The dictionaries of at most n items over the keys and the values given,
\* in every insertion order.
RECURSIVE DictsUpTo(_, _)
DictsUpTo(values, n) ==
    IF n = 0 THEN {JDict(<<>>)}
    ELSE DictsUpTo(values, n - 1)
         \cup {JDict(Append(d.items, Item(k, v))) :
                 d \in {e \in DictsUpTo(values, n - 1) : Len(e.items) = n - 1},
                 k \in JsonKeys, v \in values}

DistinctKeys(d) ==
    \A i, j \in 1..Len(d.items) : d.items[i].key = d.items[j].key => i = j

\* {"b": 1, "a": 2} and {"a": 2, "b": 1}
InnerDicts ==
    {JDict(<<Item(<<98>>, JInt(1)), Item(<<97>>, JInt(2))>>),
     JDict(<<Item(<<97>>, JInt(2)), Item(<<98>>, JInt(1))>>)}

JsonValues ==
    {d \in DictsUpTo({JInt(1)} \cup InnerDicts, MaxItems) : DistinctKeys(d)}

JsonSamples ==
    {JDict(<<Item(<<97>>, JInt(1))>>), JInt(1), JStr(<<120>>)}

\* dict.__eq__ and the equality of integers and strings: the same keys mapped
\* to equal values, whatever the insertion order.
RECURSIVE json_equal(_, _)
json_equal(a, b) ==
    /\ a.type = b.type
    /\ a.int = b.int
    /\ a.str = b.str
    /\ Len(a.items) = Len(b.items)
    /\ \A i \in 1..Len(a.items) :
          \E j \in 1..Len(b.items) :
              /\ a.items[i].key = b.items[j].key
              /\ json_equal(a.items[i].value, b.items[j].value)

\* Every variable the storage calls leave alone, as before any call.
CoreIdle ==
    /\ buf = <<>> /\ src = "caller" /\ cid = <<>> /\ uri = <<>>
    /\ call1 = NoCall /\ call2 = NoCall
    /\ identity_registry_address = <<>>
    /\ auth = NoAuth /\ signLog = <<>> /\ sent = <<>> /\ fbOut = Raise("none")

InitStorage ==
    /\ pc = "storage"
    /\ ipfs_config \in {IPFSClientConfig(p, k, s, g, None) :
                          p \in Providers, k \in ApiKeys, s \in ApiKeys,
                          g \in Gateways}
    /\ http = <<>>
    /\ storageOp = NoOp
    /\ storageOut = Raise("none")
    /\ CoreIdle
    /\ FacadeIdle
    /\ LedgerIdle

StorageFrame ==
    /\ pc = "storage"
    /\ UNCHANGED <<pc, ipfs_config>>
    /\ UNCHANGED codecVars
    /\ UNCHANGED authVars
    /\ UNCHANGED facadeVars
    /\ UNCHANGED ledgerVars

Upload ==
    /\ storageOp = NoOp
    /\ \E content \in Contents, name \in Names, metadata \in Metadatas,
          resp \in Responses :
          LET r == upload(ipfs_config, content, name, metadata, resp)
          IN  /\ storageOp' = [op |-> "upload", content |-> content,
                               name |-> name, metadata |-> metadata]
              /\ http' = r.http
              /\ storageOut' = r.out
    /\ StorageFrame

UploadJson(values) ==
    /\ storageOp = NoOp
    /\ \E data \in values, name \in Names, resp \in Responses :
          LET r == upload_json(ipfs_config, data, name, None, resp)
          IN  /\ storageOp' = [op |-> "upload_json", data |-> data,
                               name |-> name, metadata |-> None]
              /\ http' = r.http
              /\ storageOut' = r.out
    /\ StorageFrame

Pin ==
    /\ storageOp = NoOp
    /\ \E c \in ServerCids, name \in Names, resp \in Responses :
          LET r == pin(ipfs_config, c, name, resp)
          IN  /\ storageOp' = [op |-> "pin", cid |-> c, name |-> name]
              /\ http' = r.http
              /\ storageOut' = r.out
    /\ StorageFrame

\* fetch of the identifier or of the URI a successful upload returned.
FetchUploaded ==
    /\ storageOp # NoOp
    /\ storageOp.op \in {"upload", "upload_json"}
    /\ storageOut.ok
    /\ \E arg \in {storageOut.val.cid, storageOut.val.uri}, resp \in Responses :
          LET r == fetch(ipfs_config, arg, resp)
          IN  /\ storageOp' = [op |-> "fetch", arg |-> arg,
                               uploaded |-> storageOut.val]
              /\ http' = r.http
              /\ storageOut' = r.out
    /\ StorageFrame

StorageReturns ==
    /\ storageOp # NoOp
    /\ storageOp' = NoOp
    /\ http' = <<>>
    /\ storageOut' = Raise("none")
    /\ StorageFrame

NextStorage ==
    \/ Upload
    \/ UploadJson(JsonSamples)
    \/ Pin
    \/ FetchUploaded
    \/ StorageReturns

SpecStorage == InitStorage /\ [][NextStorage]_vars

\* upload_json alone, on a local node, over every dictionary of the model.
InitJson ==
    /\ InitStorage
    /\ ipfs_config.provider = "ipfs"

NextJson ==
    \/ UploadJson(JsonValues)
    \/ StorageReturns

SpecJson == InitJson /\ [][NextJson]_vars

-----------------------------------------------------------------------------
(* The ledger adapter and its callers: adapters/web3_adapter.py            *)

MaxMined == 2

MaxLogs == 2

\* self.account of an adapter constructed without a key.
NoAccount == 0

Accounts == {1, 2}

\* account.address
AddressOfAccount(account) == IF account = 1 THEN AddrOf("a") ELSE AddrOf("b")

\* A check that lets an adapter without an account through.
account_missing_never(account) == FALSE

\* not self.account
account_missing(account) == account = NoAccount

\* --- the events of a receipt ------------------------------------------------

\* An ABI item: its type, its name, the types of its inputs, and for an event
\* the number of indexed inputs.
AbiItem(type, name, types, indexed) ==
    [type |-> type, name |-> name, types |-> types, indexed |-> indexed]

\* [item for item in abi if item.get('type') == 'event']
AbiEvents(abi) == SelectSeq(abi, LAMBDA item : item.type = "event")

\* self.web3.keccak(text=f"{event_abi['name']}({types})")
event_signature(event_abi) == Keccak(<<event_abi.name, event_abi.types>>)

Topic(n) == [kind |-> "raw", data |-> <<n>>]

NoArgs == [has_agentId |-> FALSE, agentId |-> 0, has_0 |-> FALSE, arg0 |-> 0]

\* A log of a receipt: its topics, whether its data has the layout of the
\* event's inputs, and the arguments it then decodes to.
Log(topics, data_ok, args) == [topics |-> topics, data_ok |-> data_ok, args |-> args]

\* contract.events[name]().process_log(log): the log must carry one topic for
\* the signature and one per indexed input, and data of the inputs' layout.
process_log(event_abi, log) ==
    IF Len(log.topics) = 1 + event_abi.indexed /\ log.data_ok
    THEN Ok([event |-> event_abi.name, args |-> log.args])
    ELSE Raise("LogTopicError")

\* A comparison that takes any log with a topic for a log of the event.
log_matches_any(event_abi, log) == log.topics # <<>>

\* log['topics'][0] == event_signature; a log without topics raises
\* IndexError, which the inner handler turns into "continue".
log_matches(event_abi, log) ==
    log.topics # <<>> /\ log.topics[1] = event_signature(event_abi)

\* The inner loop over the events of the ABI, from the k-th on: the first
\* event whose signature is the log's first topic and that decodes the log
\* gives the entry, and the loop ends; any exception goes on with the next.
RECURSIVE decode_log(_, _, _)
decode_log(events_abi, log, k) ==
    IF k > Len(events_abi) THEN <<>>
    ELSE IF log_matches(events_abi[k], log)
         THEN LET decoded == process_log(events_abi[k], log)
              IN  IF decoded.ok
                  THEN <<[name |-> decoded.val.event, args |-> decoded.val.args]>>
                  ELSE decode_log(events_abi, log, k + 1)
         ELSE decode_log(events_abi, log, k + 1)

\* for log in receipt["logs"]: ...
RECURSIVE decode_events(_, _)
decode_events(abi, logs) ==
    IF logs = <<>> THEN <<>>
    ELSE decode_log(AbiEvents(abi), Head(logs), 1) \o decode_events(abi, Tail(logs))

\* --- the facade methods that change state -----------------------------------

WriteMethods ==
    {"register", "register_with_uri", "register_with_metadata", "set_agent_uri",
     "set_metadata", "give_feedback", "revoke_feedback", "append_response",
     "validation_request", "validation_response"}

SignMethods == {"sign_message", "sign_typed_data", "sign_feedback_auth"}

ReadMethods == {"get_token_uri", "get_chain_id", "get_address"}

\* What a facade method hands to adapter.send or adapter.call.
Request(client, function_name, args) ==
    [contract_address |-> client.contract_address, abi |-> client.abi,
     function_name |-> function_name, args |-> args]

\* bytes.fromhex(h[2:]) if h else bytes(32)
hash_bytes_of(h) ==
    IF Truthy(h)
    THEN LET b == bytes_fromhex(Drop(h.val, 2))
         IN  IF b.ok THEN Ok([kind |-> "raw", data |-> b.val]) ELSE b
    ELSE Ok(ZeroBytes32)

\* The statements of each method before its adapter.send: the checks that
\* raise, the conversions, the request.
translate(client, m, a) ==
    CASE m = "register" -> Ok(Request(client, "register", <<>>))
      [] m = "register_with_uri" ->
            Ok(Request(client, "register", <<a.token_uri>>))
      [] m = "register_with_metadata" ->
            LET enc == [k \in 1..Len(a.metadata) |->
                           encode_metadata_value(a.metadata[k].value)]
            IN  IF \E k \in 1..Len(enc) : ~enc[k].ok
                THEN Raise("UnicodeEncodeError")
                ELSE Ok(Request(client, "register",
                        <<a.token_uri,
                          [k \in 1..Len(enc) |->
                              [key |-> a.metadata[k].key, value |-> enc[k].val]]>>))
      [] m = "set_agent_uri" ->
            Ok(Request(client, "setAgentUri", <<a.agent_id, a.new_uri>>))
      [] m = "set_metadata" ->
            LET v == encode_metadata_value(a.value)
            IN  IF ~v.ok THEN v
                ELSE Ok(Request(client, "setMetadata", <<a.agent_id, a.key, v.val>>))
      [] m = "give_feedback" ->
            IF score_rejected(a.score) THEN Raise("InvalidScore")
            ELSE LET auth_bytes == bytes_fromhex(Drop(a.feedback_auth, 2))
                 IN  IF ~auth_bytes.ok THEN auth_bytes
                     ELSE Ok(Request(client, "giveFeedback",
                             <<a.agent_id, a.score, TagBytes(a.tag1),
                               TagBytes(a.tag2), <<>>, ZeroBytes32,
                               auth_bytes.val>>))
      [] m = "revoke_feedback" ->
            Ok(Request(client, "revokeFeedback", <<a.agent_id, a.feedback_index>>))
      [] m = "append_response" ->
            LET h == hash_bytes_of(a.response_hash)
            IN  IF ~h.ok THEN h
                ELSE Ok(Request(client, "appendResponse",
                        <<a.agent_id, a.client_address, a.feedback_index,
                          a.response_uri, h.val>>))
      [] m = "validation_request" ->
            Ok(Request(client, "validationRequest",
               <<a.validator_address, a.agent_id, a.request_uri, a.request_hash>>))
      [] m = "validation_response" ->
            IF response_rejected(a.response) THEN Raise("InvalidScore")
            ELSE Ok(Request(client, "validationResponse",
                    <<a.request_hash, a.response, <<>>, ZeroBytes32,
                      TagBytes(a.tag)>>))

\* A give_feedback that refuses an authorization this client has sent before.
facade_request_once(t, client, m, a) ==
    IF /\ m = "give_feedback"
       /\ history[t].method = m
       /\ history[t].args = a
       /\ history[t].sends = 1
    THEN Raise("AuthorizationUsed")
    ELSE translate(client, m, a)

\* The request of a call of thread t: the client keeps nothing of its earlier
\* calls, and the request is made of the arguments and the configuration.
facade_request(t, client, m, a) == translate(client, m, a)

\* The statements of each method after its adapter.send has returned.
facade_result(m, a, out) ==
    IF m \in {"register", "register_with_uri", "register_with_metadata"}
    THEN LET agent_id == extract_agent_id_from_receipt(out)
         IN  IF agent_id.ok THEN Ok([agentId |-> agent_id.val, txHash |-> TxHash])
             ELSE agent_id
    ELSE IF m = "validation_request"
         THEN Ok([txHash |-> TxHash, requestHash |-> a.request_hash])
         ELSE Ok([txHash |-> TxHash])

\* --- the callers, the clients, the node -------------------------------------

UriSample == <<"i", "p", "f", "s", ":", "/", "/", "Q", "m">>

\* Authorizations short enough to be cheap: give_feedback checks no length.
ShortAuths == {<<"0", "x", "1", "2", "3", "4">>, <<"0", "x", "1", "2", "3">>}

NoArguments == {[none |-> TRUE]}

\* The arguments each method is called with.
ArgsOf(m) ==
    CASE m \in {"register", "get_chain_id", "get_address", "sign_typed_data"} ->
            NoArguments
      [] m = "register_with_uri" -> {[token_uri |-> UriSample]}
      [] m = "register_with_metadata" ->
            {[token_uri |-> UriSample,
              metadata |-> <<[key |-> "agentName", value |-> v]>>] :
                v \in {<<233>>, <<55357>>}}
      [] m = "set_agent_uri" -> {[agent_id |-> 1, new_uri |-> UriSample]}
      [] m = "set_metadata" ->
            {[agent_id |-> 1, key |-> "agentName", value |-> v] :
                v \in {<<233>>, <<55357>>}}
      [] m = "give_feedback" ->
            {[agent_id |-> 1, score |-> s, feedback_auth |-> f,
              tag1 |-> None, tag2 |-> None] : s \in Scores, f \in ShortAuths}
      [] m = "revoke_feedback" -> {[agent_id |-> 1, feedback_index |-> 1]}
      [] m = "append_response" ->
            {[agent_id |-> 1, client_address |-> AddrOf("a"),
              feedback_index |-> 1, response_uri |-> UriSample,
              response_hash |-> None]}
      [] m = "validation_request" ->
            {[validator_address |-> AddrOf("b"), agent_id |-> 1,
              request_uri |-> UriSample, request_hash |-> ZeroBytes32]}
      [] m = "validation_response" ->
            {[request_hash |-> ZeroBytes32, response |-> r, tag |-> None] :
                r \in {100, 101}}
      [] m = "get_token_uri" -> {[agent_id |-> 1]}
      [] m = "sign_message" -> {[message |-> Keccak(<<1>>)]}
      [] m = "sign_feedback_auth" -> {[auth |-> SampleAuth]}

RegisteredAbi == AbiItem("event", "Registered", "(uint256,string,address)", 1)

TransferAbi == AbiItem("event", "Transfer", "(address,address,uint256)", 3)

\* An identity registry ABI: a function and two events.
IdentityAbi == <<AbiItem("function", "register", "()", 0), RegisteredAbi, TransferAbi>>

\* The ABIs a client may be given: the registry's, one whose events come in
\* the other order, one that declares "Registered" as a function only, and
\* one without events.
AbiSamples ==
    {IdentityAbi,
     <<TransferAbi, RegisteredAbi>>,
     <<AbiItem("function", "Registered", "(uint256,string,address)", 1), TransferAbi>>,
     <<AbiItem("function", "register", "()", 0)>>}

RegisteredLog ==
    Log(<<event_signature(RegisteredAbi), Topic(1)>>, TRUE,
        [has_agentId |-> TRUE, agentId |-> 1, has_0 |-> FALSE, arg0 |-> 0])

\* The logs a mined transaction may carry: a Registered event of agent 1, a
\* Transfer event, an event of another contract (with one indexed input, as
\* Registered has), a log with the signature of Registered but without its
\* indexed topic, a Registered log whose data does not decode, and an
\* anonymous log.
LogSamples ==
    {RegisteredLog,
     Log(<<event_signature(TransferAbi), Topic(0), Topic(2), Topic(1)>>, TRUE, NoArgs),
     Log(<<Keccak(<<"Other", "(uint256)">>), Topic(1)>>, TRUE, NoArgs),
     Log(<<event_signature(RegisteredAbi)>>, TRUE, NoArgs),
     Log(<<event_signature(RegisteredAbi), Topic(1)>>, FALSE, NoArgs),
     Log(<<>>, TRUE, NoArgs)}

LogMenu == SeqsUpTo(LogSamples, MaxLogs)

\* One facade client: the adapter (its account), the contract address, the
\* identity registry address, the ABI.
Client(account, abi) ==
    [adapter |-> [account |-> account], contract_address |-> AddrOf("1"),
     identity_registry_address |-> IDENTITY_REGISTRY, abi |-> abi]

NoTx == [from |-> NoAccount, nonce |-> 0, data |-> <<>>]

\* A caller between two calls: the client it holds, the methods it calls,
\* whether it calls once only.
IdleThread(client, menu, once) ==
    [client |-> client, menu |-> menu, once |-> once, pc |-> "idle",
     method |-> "none", args |-> <<>>, request |-> Raise("none"), sends |-> 0,
     tx |-> NoTx, logs |-> <<>>, out |-> SendRaised("none"),
     result |-> Raise("none")]

NoHistory == [method |-> "none", args |-> <<>>, request |-> Raise("none"), sends |-> 0]

\* The node before any transaction, with the logs its contract emits.
Node(emits) ==
    [count |-> [a \in {NoAccount} \cup Accounts |-> 0], pool |-> {},
     receipts |-> {}, emits |-> emits]

LedgerFrame ==
    /\ pc = "ledger"
    /\ UNCHANGED pc
    /\ UNCHANGED codecVars
    /\ UNCHANGED authVars
    /\ UNCHANGED facadeVars
    /\ UNCHANGED storageVars

InitThreads(clients, menu, once, logs) ==
    /\ pc = "ledger"
    /\ threads \in {[t \in DOMAIN c |-> IdleThread(c[t], menu, once)] : c \in clients}
    /\ ledger \in {Node(e) : e \in logs}
    /\ rpc = [t \in DOMAIN threads |-> <<>>]
    /\ history = [t \in DOMAIN threads |-> NoHistory]
    /\ CoreIdle
    /\ FacadeIdle
    /\ StorageIdle

\* The call of thread t has ended with this exception.
Raised(t, e) ==
    [threads EXCEPT ![t].pc = "returned", ![t].out = SendRaised(e),
                    ![t].result = Raise(e)]

\* A state-changing facade method up to the account check of
\* Web3Adapter.send: the method's own checks and conversions, then send,
\* which raises at once when the adapter has no account.
InvokeWrite ==
    /\ \E t \in DOMAIN threads :
        /\ threads[t].pc = "idle"
        /\ \E m \in threads[t].menu \cap WriteMethods : \E a \in ArgsOf(m) :
            LET th == threads[t]
                req == facade_request(t, th.client, m, a)
                called == [th EXCEPT !.method = m, !.args = a, !.request = req]
            IN  threads' = [threads EXCEPT ![t] =
                    IF ~req.ok
                    THEN [called EXCEPT !.pc = "returned", !.result = Raise(req.err)]
                    ELSE IF account_missing(th.client.adapter.account)
                    THEN [called EXCEPT !.sends = 1, !.pc = "returned",
                                        !.out = SendRaised("AccountRequired"),
                                        !.result = Raise("AccountRequired")]
                    ELSE [called EXCEPT !.sends = 1, !.pc = "build"]]
        /\ rpc' = [rpc EXCEPT ![t] = <<>>]
    /\ UNCHANGED <<ledger, history>>
    /\ LedgerFrame

\* Thread t's call of method m returns or raises, having made these requests.
Answered(t, m, a, res, requests) ==
    /\ threads' = [threads EXCEPT ![t].method = m, ![t].args = a,
                                  ![t].pc = "returned", ![t].result = res]
    /\ rpc' = [rpc EXCEPT ![t] = requests]

\* get_token_uri (adapter.call), get_chain_id, get_address, sign_message,
\* sign_typed_data and sign_feedback_auth.
InvokeOther ==
    /\ \E t \in DOMAIN threads :
        /\ threads[t].pc = "idle"
        /\ \E m \in threads[t].menu \ WriteMethods : \E a \in ArgsOf(m) :
            LET account == threads[t].client.adapter.account
            IN  CASE m = "get_address" ->
                       Answered(t, m, a,
                                Ok(IF account_missing(account) THEN None
                                   ELSE Some(AddressOfAccount(account))), <<>>)
                  [] m = "get_chain_id" ->
                       \/ Answered(t, m, a, Ok(ChainIdSample), <<"eth_chainId">>)
                       \/ Answered(t, m, a, Raise("TransportError"), <<"eth_chainId">>)
                  [] m = "get_token_uri" ->
                       \/ Answered(t, m, a, Ok(UriSample), <<"eth_call">>)
                       \/ Answered(t, m, a, Raise("TransportError"), <<"eth_call">>)
                  [] m \in {"sign_message", "sign_typed_data"} ->
                       IF account_missing(account)
                       THEN Answered(t, m, a, Raise("AccountRequiredForSigning"), <<>>)
                       ELSE \E signature \in Signatures :
                               Answered(t, m, a, Ok(signature), <<>>)
                  [] m = "sign_feedback_auth" ->
                       LET encoded == encode_feedback_auth(a.auth)
                       IN  IF ~encoded.ok
                           THEN Answered(t, m, a, Raise(encoded.err), <<>>)
                           ELSE IF account_missing(account)
                           THEN Answered(t, m, a, Raise("AccountRequiredForSigning"), <<>>)
                           ELSE \E signature \in Signatures :
                                   Answered(t, m, a,
                                            sign_feedback_auth(a.auth, signature), <<>>)
    /\ UNCHANGED <<ledger, history>>
    /\ LedgerFrame

\* contract.functions[...](*args).build_transaction({...}): the nonce is the
\* node's transaction count of the account, the gas price the node's; then
\* the transaction is signed.
BuildTransaction ==
    /\ \E t \in DOMAIN threads :
        /\ threads[t].pc = "build"
        /\ rpc' = [rpc EXCEPT ![t] = @ \o <<"eth_getTransactionCount", "eth_gasPrice">>]
        /\ LET th == threads[t]
               account == th.client.adapter.account
           IN  \/ threads' = Raised(t, "TransportError")
               \/ threads' = [threads EXCEPT
                      ![t].pc = "broadcast",
                      ![t].tx = [from |-> account, nonce |-> ledger.count[account],
                                 data |-> <<th.request.val.function_name>>
                                          \o th.request.val.args]]
    /\ UNCHANGED <<ledger, history>>
    /\ LedgerFrame

\* A broadcast that builds the transaction again when the node is not reached.
SendRawTransactionFails_retry(t) ==
    threads' = [threads EXCEPT ![t].pc = "build", ![t].sends = @ + 1]

\* send_raw_transaction raises: the exception leaves send and the facade
\* method as it is.
SendRawTransactionFails(t) == threads' = Raised(t, "TransportError")

\* self.web3.eth.send_raw_transaction(raw_tx): the node takes the transaction
\* into its pool, unless its nonce is used up (a transaction of the account
\* with that nonce is mined) or taken (one is pending: the node then refuses
\* the new one, or lets it replace the pending one).
SendRawTransaction ==
    /\ \E t \in DOMAIN threads :
        /\ threads[t].pc = "broadcast"
        /\ rpc' = [rpc EXCEPT ![t] = Append(@, "eth_sendRawTransaction")]
        /\ LET tx == threads[t].tx
               taken == {p \in ledger.pool : p.from = tx.from /\ p.nonce = tx.nonce}
           IN  \/ /\ SendRawTransactionFails(t)
                  /\ ledger' = ledger
               \/ /\ tx.nonce < ledger.count[tx.from]
                  /\ threads' = Raised(t, "NonceTooLow")
                  /\ ledger' = ledger
               \/ /\ tx.nonce >= ledger.count[tx.from]
                  /\ taken # {}
                  /\ threads' = Raised(t, "ReplacementUnderpriced")
                  /\ ledger' = ledger
               \/ /\ tx.nonce >= ledger.count[tx.from]
                  /\ threads' = [threads EXCEPT ![t].pc = "wait"]
                  /\ ledger' = [ledger EXCEPT !.pool = (@ \ taken) \cup {tx}]
    /\ UNCHANGED history
    /\ LedgerFrame

\* The node mines a pending transaction whose nonce is the account's next: it
\* is executed, and emits the contract's logs, or it reverts.  The receipt is
\* kept for the callers that wait for it.
Mine ==
    /\ ledger.count[1] + ledger.count[2] < MaxMined
    /\ \E tx \in ledger.pool, status \in {0, 1} :
        /\ tx.nonce = ledger.count[tx.from]
        /\ LET awaited == \E t \in DOMAIN threads :
                              threads[t].pc = "wait" /\ threads[t].tx = tx
               receipt == [tx |-> tx, status |-> status,
                           logs |-> IF status = 1 THEN ledger.emits ELSE <<>>]
           IN  ledger' = [ledger EXCEPT
                   !.count[tx.from] = @ + 1,
                   !.pool = @ \ {tx},
                   !.receipts = IF awaited THEN @ \cup {receipt} ELSE @]
    /\ UNCHANGED <<threads, rpc, history>>
    /\ LedgerFrame

\* wait_for_transaction_receipt, the decoding of the logs, the return of send
\* and the rest of the facade method; or the wait times out, the transaction
\* pending or replaced.
WaitForReceipt ==
    /\ \E t \in DOMAIN threads :
        /\ threads[t].pc = "wait"
        /\ rpc' = [rpc EXCEPT ![t] = Append(@, "eth_getTransactionReceipt")]
        /\ LET th == threads[t]
               mined == {r \in ledger.receipts : r.tx = th.tx}
           IN  \/ /\ mined = {}
                  /\ threads' = Raised(t, "TimeExhausted")
                  /\ ledger' = ledger
               \/ \E r \in mined :
                    LET out == SendReturned(r.status, TRUE,
                                            decode_events(th.client.abi, r.logs))
                        others == \E u \in DOMAIN threads \ {t} :
                                     threads[u].pc = "wait" /\ threads[u].tx = th.tx
                    IN  /\ threads' = [threads EXCEPT
                               ![t].pc = "returned", ![t].logs = r.logs,
                               ![t].out = out,
                               ![t].result = facade_result(th.method, th.args, out)]
                        /\ ledger' = [ledger EXCEPT
                               !.receipts = IF others THEN @ ELSE @ \ {r}]
    /\ UNCHANGED history
    /\ LedgerFrame

\* The caller has taken the result; what the client did is over.
Return ==
    /\ \E t \in DOMAIN threads :
        /\ threads[t].pc = "returned"
        /\ history' = [history EXCEPT ![t] =
               [method |-> threads[t].method, args |-> threads[t].args,
                request |-> threads[t].request, sends |-> threads[t].sends]]
        /\ threads' = [threads EXCEPT ![t] =
               [IdleThread(@.client, @.menu, @.once) EXCEPT
                   !.pc = IF threads[t].once THEN "done" ELSE "idle"]]
        /\ rpc' = [rpc EXCEPT ![t] = <<>>]
    /\ UNCHANGED ledger
    /\ LedgerFrame

\* One caller, calling every method of the facade again and again.
InitFacade ==
    InitThreads({<<Client(account, IdentityAbi)>> : account \in {NoAccount, 1}},
                WriteMethods \cup ReadMethods \cup SignMethods, FALSE,
                {<<>>, <<RegisteredLog>>})

NextFacade ==
    \/ InvokeWrite
    \/ InvokeOther
    \/ BuildTransaction
    \/ SendRawTransaction
    \/ Mine
    \/ WaitForReceipt
    \/ Return

SpecFacade == InitFacade /\ [][NextFacade]_vars

\* Two callers, each with a client of its own, each calling once.
InitLedger ==
    InitThreads({<<Client(a1, IdentityAbi), Client(a2, IdentityAbi)>> :
                    a1 \in {NoAccount} \cup Accounts, a2 \in {NoAccount} \cup Accounts},
                {"register", "set_agent_uri"}, TRUE, {<<RegisteredLog>>})

NextLedger ==
    \/ InvokeWrite
    \/ BuildTransaction
    \/ SendRawTransaction
    \/ Mine
    \/ WaitForReceipt
    \/ Return

SpecLedger == InitLedger /\ [][NextLedger]_vars

\* One caller registering once, for every ABI and every receipt of the model.
InitReceipt ==
    InitThreads({<<Client(1, abi)>> : abi \in AbiSamples}, {"register"}, TRUE, LogMenu)

SpecReceipt == InitReceipt /\ [][NextLedger]_vars

-----------------------------------------------------------------------------
(* Properties of the codec                                                 *)

Calls == {call1, call2}

\* The string holds a character outside the 58-symbol alphabet.
HasForeignChar(s) == \E i \in 1..Len(s) : ~InAlphabet(s[i])

\* The value of a hexadecimal digit, either case.
HexValue(ch) ==
    CASE ch = "0" -> 0  [] ch = "1" -> 1  [] ch = "2" -> 2  [] ch = "3" -> 3
      [] ch = "4" -> 4  [] ch = "5" -> 5  [] ch = "6" -> 6  [] ch = "7" -> 7
      [] ch = "8" -> 8  [] ch = "9" -> 9
      [] ch \in {"a", "A"} -> 10  [] ch \in {"b", "B"} -> 11
      [] ch \in {"c", "C"} -> 12  [] ch \in {"d", "D"} -> 13
      [] ch \in {"e", "E"} -> 14  [] ch \in {"f", "F"} -> 15
      [] OTHER -> -1

\* The buffer is a 34-byte CIDv0 buffer: header (0x12, 0x20) and 32 digest bytes.
IsCidv0Buffer(b) == Len(b) = 34 /\ b[1] = 18 /\ b[2] = 32

\* The call was made on the identifier the encoder produced from buf.
OnEncoded(c) == src = "buffer" /\ c.fn # "none" /\ c.arg = cid

\* C1: base-58 round trip.  base58_decode applied to the encoding of a byte
\* buffer returns exactly that buffer, leading zero bytes included.
C1_Base58RoundTrip ==
    \A c \in Calls :
        (OnEncoded(c) /\ c.fn = "base58_decode") => c.out = Ok(buf)

\* A 34-byte buffer with a leading zero byte was encoded and decoded back.
C1_Witness ==
    /\ OnEncoded(call1) /\ call1.fn = "base58_decode"
    /\ Len(buf) = 34 /\ LeadingZeroBytes(buf) >= 1
    /\ call1.out.ok /\ call1.out.val = buf

\* C2: for a 34-byte buffer with header (0x12, 0x20), cid_to_bytes32 of its
\* encoding succeeds with "0x" and the 64 hex digits of bytes 3..34 of the
\* buffer: nothing cut, nothing padded, the Qm check passed.
C2_CidToBytes32Digest ==
    \A c \in Calls :
        (OnEncoded(c) /\ c.fn = "cid_to_bytes32" /\ IsCidv0Buffer(buf)) =>
            /\ c.out.ok
            /\ Len(c.out.val) = 66
            /\ c.out.val[1] = "0" /\ c.out.val[2] = "x"
            /\ \A i \in 1..32 :
                  16 * HexValue(c.out.val[2 * i + 1])
                     + HexValue(c.out.val[2 * i + 2]) = buf[i + 2]

\* A digest with leading zero bytes came back whole.
C2_Witness ==
    /\ OnEncoded(call1) /\ call1.fn = "cid_to_bytes32" /\ IsCidv0Buffer(buf)
    /\ buf[3] = 0 /\ buf[34] = 255
    /\ call1.out.ok /\ Len(call1.out.val) = 66

\* C3: digest stability.  ipfs_uri_to_bytes32 of a string and of "ipfs://"
\* followed by that string have the same outcome, and for a valid CIDv0 both
\* are the outcome of cid_to_bytes32 on it.
C3_DigestStability ==
    /\ (/\ call1.fn = "ipfs_uri_to_bytes32" /\ call2.fn = "ipfs_uri_to_bytes32"
        /\ call2.arg = IpfsScheme \o call1.arg)
          => call2.out = call1.out
    /\ (/\ call1.fn = "cid_to_bytes32" /\ call1.out.ok
        /\ call2.fn = "ipfs_uri_to_bytes32"
        /\ call2.arg \in {call1.arg, IpfsScheme \o call1.arg})
          => call2.out = call1.out
    /\ (/\ call1.fn = "ipfs_uri_to_bytes32"
        /\ call2.fn = "cid_to_bytes32" /\ call2.out.ok
        /\ call2.arg = call1.arg)
          => call1.out = call2.out

\* The digest of a valid identifier was taken as cid_to_bytes32 of the bare
\* identifier and as ipfs_uri_to_bytes32 of its URI.
C3_Witness ==
    /\ call1.fn = "cid_to_bytes32" /\ call1.out.ok
    /\ call2.fn = "ipfs_uri_to_bytes32"
    /\ call2.arg = IpfsScheme \o call1.arg
    /\ call2.out.ok

\* C4: scheme stripping in ipfs_uri_to_bytes32 and fetch removes "ipfs://"
\* only as a leading prefix, leaves every other string as it is, and is
\* idempotent.
C4_StripIsPrefixOnly ==
    \A c \in Calls :
        /\ c.fn = "fetch" =>
              c.out = Ok(gateway_url \o strip_scheme_prefix_only(c.arg))
        /\ c.fn = "ipfs_uri_to_bytes32" =>
              c.out = cid_to_bytes32(strip_scheme_prefix_only(c.arg))
        /\ c.fn \in {"fetch", "ipfs_uri_to_bytes32"} =>
              strip_scheme(strip_scheme(c.arg)) = strip_scheme(c.arg)

\* C5 as claimed: every string with a character outside the alphabet fails
\* with MalformedIdentifier in base58_decode, cid_to_bytes32 and
\* ipfs_uri_to_bytes32.
C5_Original ==
    \A c \in Calls :
        (/\ c.fn \in {"base58_decode", "cid_to_bytes32", "ipfs_uri_to_bytes32"}
         /\ HasForeignChar(c.arg))
            => c.out = Raise(MalformedIdentifier)

\* What cid_to_bytes32 raises on a string with a foreign character.
ForeignCharError(s) ==
    IF StartsWith(s, Qm) THEN MalformedIdentifier ELSE UnsupportedPrefix

\* C5 (amended): a string with a character outside the alphabet never yields
\* a digest.  base58_decode fails with MalformedIdentifier; cid_to_bytes32
\* fails with MalformedIdentifier when the string starts with "Qm" and with
\* the Qm-prefix error otherwise; ipfs_uri_to_bytes32 does the same on the
\* string left once every "ipfs://" is taken out of it.
C5_ForeignCharRejected ==
    \A c \in Calls :
        /\ (c.fn = "base58_decode" /\ HasForeignChar(c.arg))
              => c.out = Raise(MalformedIdentifier)
        /\ (c.fn = "cid_to_bytes32" /\ HasForeignChar(c.arg))
              => c.out = Raise(ForeignCharError(c.arg))
        /\ (c.fn = "ipfs_uri_to_bytes32" /\ HasForeignChar(strip_scheme(c.arg)))
              => c.out = Raise(ForeignCharError(strip_scheme(c.arg)))

\* cid_to_bytes32 met a foreign character behind a "Qm" prefix.
C5_Witness ==
    /\ call1.fn = "cid_to_bytes32" /\ StartsWith(call1.arg, Qm)
    /\ HasForeignChar(call1.arg)
    /\ call1.out = Raise(MalformedIdentifier)

\* C6 as claimed: a 34-byte buffer whose header is not (0x12, 0x20) fails in
\* cid_to_bytes32 with the header error UnsupportedVariant.
C6_Original ==
    \A c \in Calls :
        (/\ OnEncoded(c) /\ c.fn = "cid_to_bytes32"
         /\ Len(buf) = 34 /\ ~IsCidv0Buffer(buf))
            => c.out = Raise(UnsupportedVariant)

\* C6 (amended): such a buffer never yields a digest; cid_to_bytes32 fails with
\* UnsupportedVariant when the identifier starts with "Qm", and with the
\* Qm-prefix error when it does not.
C6_WrongHeaderRejected ==
    \A c \in Calls :
        (/\ OnEncoded(c) /\ c.fn = "cid_to_bytes32"
         /\ Len(buf) = 34 /\ ~IsCidv0Buffer(buf))
            => c.out = Raise(IF StartsWith(c.arg, Qm) THEN UnsupportedVariant
                                                     ELSE UnsupportedPrefix)

\* A 34-byte buffer with another header, encoded to a "Qm" identifier, met the
\* header check.
C6_Witness ==
    /\ OnEncoded(call1) /\ call1.fn = "cid_to_bytes32"
    /\ Len(buf) = 34 /\ ~IsCidv0Buffer(buf)
    /\ StartsWith(call1.arg, Qm)
    /\ call1.out = Raise(UnsupportedVariant)

\* The identifier is well-formed base-58 and its decoded buffer is not 34
\* bytes long.
DecodesToOtherLength(s) ==
    ~HasForeignChar(s) /\ Len(base58_decode(s).val) # 34

\* C7 as claimed: a well-formed identifier whose decoded buffer is not 34
\* bytes long fails in cid_to_bytes32 with LengthMismatch.
C7_Original ==
    \A c \in Calls :
        (c.fn = "cid_to_bytes32" /\ DecodesToOtherLength(c.arg))
            => c.out = Raise(LengthMismatch)

\* C7 (amended): such an identifier never yields a digest; cid_to_bytes32
\* fails with LengthMismatch when the identifier starts with "Qm", and with
\* the Qm-prefix error when it does not.
C7_WrongLengthRejected ==
    \A c \in Calls :
        (c.fn = "cid_to_bytes32" /\ DecodesToOtherLength(c.arg))
            => c.out = Raise(IF StartsWith(c.arg, Qm) THEN LengthMismatch
                                                     ELSE UnsupportedPrefix)

\* A "Qm" identifier of another decoded length met the length check.
C7_Witness ==
    /\ call1.fn = "cid_to_bytes32" /\ DecodesToOtherLength(call1.arg)
    /\ StartsWith(call1.arg, Qm)
    /\ call1.out = Raise(LengthMismatch)


-----------------------------------------------------------------------------
(* Properties of the feedback authorization                                *)

\* The authorization as the registry contract reads it: 7 words of 32 bytes,
\* then the signature.
WordAt(b, k) == SubSeq(b, 32 * (k - 1) + 1, 32 * k)

HighBytesZero(w, n) == \A i \in 1..n : w[i] = 0

UintOfWord(w) == w[29] * 16777216 + w[30] * 65536 + w[31] * 256 + w[32]

AddressOfWord(w) == <<"0", "x">> \o BytesToHex(SubSeq(w, 13, 32))

DecodedToken(b) ==
    [agentId          |-> UintOfWord(WordAt(b, 1)),
     clientAddress    |-> AddressOfWord(WordAt(b, 2)),
     indexLimit       |-> UintOfWord(WordAt(b, 3)),
     expiry           |-> UintOfWord(WordAt(b, 4)),
     chainId          |-> UintOfWord(WordAt(b, 5)),
     identityRegistry |-> AddressOfWord(WordAt(b, 6)),
     signerAddress    |-> AddressOfWord(WordAt(b, 7))]

\* Two tokens with the same fields, addresses compared without their case.
SameUpToCase(a, b) ==
    /\ \A f \in IntFields : a[f] = b[f]
    /\ \A f \in AddrFields : ToLower(a[f]) = ToLower(b[f])

Signed == {signLog[k] : k \in 1..Len(signLog)}

HasMixedCase(s) ==
    /\ \E i \in 1..Len(s) : IsHexLetter(s[i]) /\ s[i] = LowerOf(s[i])
    /\ \E i \in 1..Len(s) : IsHexLetter(s[i]) /\ s[i] # LowerOf(s[i])

\* C8: the string sign_feedback_auth returns is 0x and the hex of 224 + 65
\* bytes; its first 224 bytes decode to the fields of the token signed
\* (addresses up to case), its last 65 bytes are the signature the adapter
\* returned, the keccak-256 digest of the re-encoded decoded token is the
\* digest handed to sign_message, and the bytes give_feedback hands to
\* adapter.send are the bytes of that string.
C8_SignatureRoundTrip ==
    /\ \A e \in Signed :
          /\ e.out.ok
          /\ StartsWith(e.out.val, <<"0", "x">>)
          /\ LET raw == bytes_fromhex(Drop(e.out.val, 2))
             IN  /\ raw.ok
                 /\ Len(raw.val) = 224 + 65
                 /\ SameUpToCase(DecodedToken(SubSeq(raw.val, 1, 224)), e.auth)
                 /\ SubSeq(raw.val, 225, 289) = SignatureBytes
                 /\ BytesToHex(SubSeq(raw.val, 225, 289)) = HexBody(e.signature)
                 /\ LET again == encode_feedback_auth(
                                     DecodedToken(SubSeq(raw.val, 1, 224)))
                    IN  again.ok /\ Keccak(again.val) = e.message
    /\ \A k \in 1..Len(sent) :
          <<"0", "x">> \o BytesToHex(sent[k].feedbackAuth)
              = signLog[Len(signLog)].out.val
    /\ (pc = "sent" /\ fbOut.ok) => Len(sent) = 1
    /\ (pc = "sent" /\ ~fbOut.ok) => fbOut.err = "InvalidScore"

C8_Witness ==
    /\ pc = "sent"
    /\ Len(sent) = 1
    /\ Len(sent[1].feedbackAuth) = 289
    /\ Len(signLog) = 2
    /\ StartsWith(signLog[2].signature, <<"0", "x">>)
    /\ HasMixedCase(signLog[2].auth.identityRegistry)

\* C9: two tokens that differ only in the letter case of their addresses are
\* signed with the same outcome, the same encoded bytes, the same digest and
\* the same 224-byte prefix of the serialized authorization.
C9_CaseInsensitiveEncoding ==
    \A e1 \in Signed, e2 \in Signed :
        SameUpToCase(e1.auth, e2.auth) =>
            /\ e1.out.ok /\ e2.out.ok
            /\ e1.encoded = e2.encoded
            /\ e1.message = e2.message
            /\ SubSeq(e1.out.val, 1, 2 + 2 * 224) = SubSeq(e2.out.val, 1, 2 + 2 * 224)

C9_Witness ==
    /\ Len(signLog) = 2
    /\ signLog[1].auth # signLog[2].auth
    /\ SameUpToCase(signLog[1].auth, signLog[2].auth)
    /\ signLog[1].out.ok /\ signLog[2].out.ok
    /\ HasMixedCase(signLog[1].auth.identityRegistry)
    /\ ~HasMixedCase(signLog[2].auth.identityRegistry)

\* C10: the encoding is 224 bytes, seven 32-byte words holding agentId,
\* clientAddress, indexLimit, expiry, chainId, identityRegistry and
\* signerAddress in this order (integers big-endian, addresses behind 12 zero
\* bytes); two tokens that differ in a field other than by address case,
\* tokens with two unequal fields exchanged included, have different
\* encodings, digests and serialized prefixes.
C10_FixedLayoutInjective ==
    /\ \A e \in Signed :
          LET encoded == e.encoded
          IN  /\ encoded.ok
              /\ Len(encoded.val) = 7 * 32
              /\ \A k \in {1, 3, 4, 5} : HighBytesZero(WordAt(encoded.val, k), 28)
              /\ \A k \in {2, 6, 7} : HighBytesZero(WordAt(encoded.val, k), 12)
              /\ UintOfWord(WordAt(encoded.val, 1)) = e.auth.agentId
              /\ AddressOfWord(WordAt(encoded.val, 2)) = ToLower(e.auth.clientAddress)
              /\ UintOfWord(WordAt(encoded.val, 3)) = e.auth.indexLimit
              /\ UintOfWord(WordAt(encoded.val, 4)) = e.auth.expiry
              /\ UintOfWord(WordAt(encoded.val, 5)) = e.auth.chainId
              /\ AddressOfWord(WordAt(encoded.val, 6)) = ToLower(e.auth.identityRegistry)
              /\ AddressOfWord(WordAt(encoded.val, 7)) = ToLower(e.auth.signerAddress)
    /\ \A e1 \in Signed, e2 \in Signed :
          ~SameUpToCase(e1.auth, e2.auth) =>
              /\ e1.encoded # e2.encoded
              /\ e1.message # e2.message
              /\ SubSeq(e1.out.val, 1, 2 + 2 * 224) # SubSeq(e2.out.val, 1, 2 + 2 * 224)

C10_Witness ==
    /\ Len(signLog) = 2
    /\ signLog[1].out.ok /\ signLog[2].out.ok
    /\ signLog[1].auth.indexLimit # signLog[1].auth.expiry
    /\ signLog[2].auth.indexLimit = signLog[1].auth.expiry
    /\ signLog[2].auth.expiry = signLog[1].auth.indexLimit
    /\ signLog[1].message # signLog[2].message

\* C11: the string sign_feedback_auth returns is 0x, the hex of the encoded
\* tuple and the hex of the signature without a 0x of its own, whichever of
\* the two forms the adapter returned; it has 2 + 2 * (224 + 65) = 580
\* characters and no x after its second character.
C11_SerializedForm ==
    \A e \in Signed :
        /\ e.out.ok
        /\ e.out.val = <<"0", "x">> \o BytesToHex(e.encoded.val)
                                    \o BytesToHex(SignatureBytes)
        /\ Len(BytesToHex(e.encoded.val)) = 2 * 224
        /\ Len(e.out.val) = 580
        /\ \A i \in 3..Len(e.out.val) : e.out.val[i] \notin {"x", "X"}

C11_Witness ==
    /\ Len(signLog) = 2
    /\ signLog[1].out.ok /\ signLog[2].out.ok
    /\ StartsWith(signLog[1].signature, <<"0", "x">>)
    /\ ~StartsWith(signLog[2].signature, <<"0", "x">>)
    /\ Len(signLog[2].signature) = 2 * 65

\* The 28 bytes "\x19Ethereum Signed Message:\n32".
EthSignedMessage32 ==
    <<25, 69, 116, 104, 101, 114, 101, 117, 109, 32, 83, 105, 103, 110, 101,
      100, 32, 77, 101, 115, 115, 97, 103, 101, 58, 10, 51, 50>>

\* C13: what sign_feedback_auth hands to adapter.sign_message is the
\* keccak-256 digest of the 224-byte encoding, never the encoding; what the
\* adapter signs is not that digest but the keccak-256 digest of
\* "\x19Ethereum Signed Message:\n32" followed by it.
C13_SignsPrefixedDigest ==
    \A e \in Signed :
        /\ e.encoded.ok
        /\ e.message.kind = "keccak256"
        /\ e.message.data = e.encoded.val
        /\ Len(e.message.data) = 224
        /\ e.signed # e.message
        /\ e.signed.kind = "keccak256"
        /\ e.signed.data = EthSignedMessage32
        /\ e.signed.body = e.message

C13_Witness ==
    /\ pc = "signed"
    /\ Len(signLog) = 2
    /\ signLog[2].encoded.ok
    /\ signLog[2].signed.body = signLog[2].message
    /\ signLog[1].signed # signLog[2].signed

-----------------------------------------------------------------------------
(* Properties of the identity facade                                       *)

IsRegisterCall ==
    lastOp.op \in {"register", "register_with_uri", "register_with_metadata"}

\* The receipt's first event named Registered is its i-th event.
FirstRegisteredAt(events, i) ==
    /\ i \in 1..Len(events)
    /\ events[i].name = "Registered"
    /\ \A j \in 1..(i - 1) : events[j].name # "Registered"

\* C15: when adapter.send has returned, a register call returns the agentId of
\* the first event named Registered (by name, else by position) and fails
\* with EventNotFound when the result holds no such event or no events at
\* all; it returns no agentId that no Registered event carries.
C15_AgentIdFromRegisteredEvent ==
    (IsRegisterCall /\ Len(adapterLog) = 1 /\ adapterLog[1].out.ok) =>
        LET out == adapterLog[1].out
        IN  /\ (~out.has_events \/ \A i \in 1..Len(out.events) :
                                       out.events[i].name # "Registered")
                   => (~result.ok /\ result.err = "EventNotFound")
            /\ \A i \in 1..Len(out.events) :
                  (out.has_events /\ FirstRegisteredAt(out.events, i)) =>
                      LET args == out.events[i].args
                      IN  /\ args.has_agentId =>
                                (result.ok /\ result.val.agentId = args.agentId)
                          /\ (~args.has_agentId /\ args.has_0) =>
                                (result.ok /\ result.val.agentId = args.arg0)
                          /\ (~args.has_agentId /\ ~args.has_0) => ~result.ok
            /\ result.ok => result.val.txHash = TxHash

C15_Witness ==
    /\ lastOp.op = "register_with_metadata"
    /\ Len(adapterLog) = 1
    /\ adapterLog[1].out.ok
    /\ Len(adapterLog[1].out.events) = 2
    /\ adapterLog[1].out.events[1].name = "Registered"
    /\ adapterLog[1].out.events[2].name = "Registered"
    /\ result.ok
    /\ result.val.agentId = 2

\* C16: a register call fails with EventNotFound only after its one
\* adapter.send has returned for a transaction that was mined and changed the
\* registry, and a failure of send itself is reported as that failure.
C16_EventNotFoundAfterMinedSend ==
    IsRegisterCall =>
        /\ (~result.ok /\ result.err = "EventNotFound") =>
              /\ Len(adapterLog) = 1
              /\ adapterLog[1].kind = "send"
              /\ adapterLog[1].out.ok
              /\ adapterLog[1].out.status = 1
              /\ chain.registered = lastOp.before + 1
        /\ (Len(adapterLog) = 1 /\ ~adapterLog[1].out.ok) =>
              (~result.ok /\ result.err = adapterLog[1].out.err
                          /\ result.err # "EventNotFound")

\* C17: get_metadata(agent, key) returns exactly the string v that the last
\* mined set_metadata(agent, key, v) or register_with_metadata entry (key, v)
\* stored, for either form in which the adapter returns the stored bytes.
C17_MetadataRoundTrip ==
    /\ (lastOp.op = "get_metadata" /\ adapterLog[1].out.type # "raised") =>
          LET cell == chain.metadata[<<lastOp.agent_id, lastOp.key>>]
          IN  cell.has_text => (result.ok /\ result.val = cell.text)
    /\ (lastOp.op = "set_metadata" /\ result.ok /\ adapterLog[1].out.status = 1) =>
          LET cell == chain.metadata[<<lastOp.agent_id, lastOp.key>>]
          IN  cell.has_text /\ cell.text = lastOp.value
    /\ (lastOp.op = "register_with_metadata" /\ result.ok) =>
          \A k \in 1..Len(lastOp.metadata) :
              LET cell == chain.metadata[<<chain.registered, lastOp.metadata[k].key>>]
              IN  cell.has_text /\ cell.text = lastOp.metadata[k].value

C17_Witness ==
    /\ lastOp.op = "get_metadata"
    /\ adapterCfg.format = "hex"
    /\ adapterLog[1].out.type = "str"
    /\ chain.metadata[<<lastOp.agent_id, lastOp.key>>].has_text
    /\ chain.metadata[<<lastOp.agent_id, lastOp.key>>].text = <<48, 120, 52, 49>>
    /\ result.ok
    /\ result.val = <<48, 120, 52, 49>>

\* The stored byte strings of the model that are not valid UTF-8.
InvalidUtf8 == {<<255>>, <<195>>}

\* C18: from the stored bytes b, delivered as bytes or as 0x hex, get_metadata
\* returns the one string whose UTF-8 encoding is b, and raises the decode
\* error when b is not valid UTF-8; it returns no string that does not encode
\* back to b.
C18_MetadataCoercion ==
    (lastOp.op = "get_metadata" /\ adapterLog[1].out.type # "raised") =>
        LET b == chain.metadata[<<lastOp.agent_id, lastOp.key>>].value
        IN  /\ adapterLog[1].out.type = (IF adapterCfg.format = "bytes"
                                        THEN "bytes" ELSE "str")
            /\ b \in InvalidUtf8 => (~result.ok /\ result.err = "UnicodeDecodeError")
            /\ b \notin InvalidUtf8 => result.ok
            /\ result.ok => Utf8Concat(result.val) = b
            /\ result = bytes_to_string(AdapterBytes("bytes", b))
            /\ result = bytes_to_string(AdapterBytes("hex", b))

C18_Witness ==
    /\ lastOp.op = "get_metadata"
    /\ adapterCfg.format = "hex"
    /\ adapterLog[1].out.type = "str"
    /\ chain.metadata[<<lastOp.agent_id, lastOp.key>>].value = <<255>>
    /\ ~result.ok
    /\ result.err = "UnicodeDecodeError"

-----------------------------------------------------------------------------
(* Properties of the reputation and validation calls                       *)

Sends == {k \in 1..Len(adapterLog) : adapterLog[k].kind = "send"}

\* C12: give_feedback rejects an authorization of fewer than 224 + 65 bytes
\* with TruncatedAuthorization and hands nothing to adapter.send.
C12_TruncatedAuthorizationRejected ==
    (/\ lastOp.op = "give_feedback"
     /\ ~score_rejected(lastOp.score)
     /\ Len(lastOp.feedback_auth) - 2 < 2 * (224 + 65)) =>
        /\ ~result.ok
        /\ result.err = "TruncatedAuthorization"
        /\ Sends = {}

\* C14: give_feedback and validation_response reach adapter.send only with a
\* value from 0 to 100; a value below 0 or above 100 fails with InvalidScore
\* and no adapter request; 0 and 100 pass the check.
C14_ScoreBounds ==
    lastOp.op \in {"give_feedback", "validation_response"} =>
        LET v == IF lastOp.op = "give_feedback" THEN lastOp.score
                 ELSE lastOp.response
        IN  /\ (v < 0 \/ v > 100) =>
                  (~result.ok /\ result.err = "InvalidScore" /\ adapterLog = <<>>)
            /\ (v >= 0 /\ v <= 100) => (result.ok \/ result.err # "InvalidScore")
            /\ adapterLog # <<>> => (v >= 0 /\ v <= 100)
            /\ (/\ v >= 0 /\ v <= 100
                /\ (lastOp.op = "give_feedback" => lastOp.feedback_auth = SignedSample))
                  => Len(adapterLog) = 1

C14_Witness ==
    /\ lastOp.op = "validation_response"
    /\ lastOp.response = 100
    /\ Len(adapterLog) = 1
    /\ adapterLog[1].args.response = 100
    /\ result.ok

\* C19: for a call with a tag, there is a configuration of the facade under
\* which the adapter receives the tag as its UTF-8 string and one under which
\* it receives the keccak-256 digest of the tag.
C19_TagEncodingConfigurable ==
    (/\ lastOp.op \in {"give_feedback", "validation_response", "get_summary",
                       "read_all_feedback", "validation_get_summary"}
     /\ adapterLog # <<>>
     /\ lastOp.tag1.some /\ lastOp.tag1.val # <<>>) =>
        /\ \E c \in FacadeConfigs :
              TagBytesUnder(c, lastOp.tag1) = Keccak(lastOp.tag1.val)
        /\ \E c \in FacadeConfigs :
              TagBytesUnder(c, lastOp.tag1) = RawTag(lastOp.tag1)

\* C20: create_feedback_auth returns the token made of its arguments and of
\* the configured identity registry address, for every argument, and makes no
\* adapter request.
C20_CreateFeedbackAuthPure ==
    lastOp.op = "create_feedback_auth" =>
        /\ result.ok
        /\ result.val.agentId = lastOp.agent_id
        /\ result.val.clientAddress = lastOp.client_address
        /\ result.val.indexLimit = lastOp.index_limit
        /\ result.val.expiry = lastOp.expiry
        /\ result.val.chainId = lastOp.chain_id
        /\ result.val.signerAddress = lastOp.signer_address
        /\ result.val.identityRegistry = identity_registry_address
        /\ adapterLog = <<>>

C20_Witness ==
    /\ lastOp.op = "create_feedback_auth"
    /\ lastOp.index_limit = 0
    /\ lastOp.expiry = 0
    /\ lastOp.client_address = <<>>
    /\ result.ok
    /\ result.val.identityRegistry = ToLower(IDENTITY_REGISTRY)

-----------------------------------------------------------------------------
(* Properties of the storage client                                        *)

NoCredential == {None, Some(<<>>)}

MissingCredentials ==
    {"PinataCredentialsRequired", "NftStorageApiKeyRequired",
     "Web3StorageApiKeyRequired"}

\* C23: pin on a provider other than 'pinata' and 'ipfs' fails with the
\* pinning-not-supported error (UnsupportedOperation) and issues no HTTP
\* request; it never returns normally.
C23_PinUnsupported ==
    (storageOp.op = "pin" /\ ipfs_config.provider \notin {"pinata", "ipfs"}) =>
        /\ ~storageOut.ok
        /\ storageOut.err = "PinningNotSupported"
        /\ http = <<>>

C23_Witness ==
    /\ storageOp.op = "pin"
    /\ ipfs_config.provider = "nftstorage"
    /\ ipfs_config.api_key = Some(<<"k", "e", "y">>)
    /\ ~storageOut.ok
    /\ storageOut.err = "PinningNotSupported"

\* C24: upload and pin on 'pinata' without api_key or without api_secret, and
\* upload on 'nftstorage' or 'web3storage' without api_key, fail with
\* MissingCredentials before any HTTP request; a missing value is None or the
\* empty string; the local 'ipfs' provider never fails for want of
\* credentials.
C24_MissingCredentials ==
    /\ (/\ storageOp.op \in {"upload", "upload_json", "pin"}
        /\ ipfs_config.provider = "pinata"
        /\ (ipfs_config.api_key \in NoCredential
            \/ ipfs_config.api_secret \in NoCredential)) =>
          /\ ~storageOut.ok
          /\ storageOut.err = "PinataCredentialsRequired"
          /\ http = <<>>
    /\ (/\ storageOp.op \in {"upload", "upload_json"}
        /\ ipfs_config.provider \in {"nftstorage", "web3storage"}
        /\ ipfs_config.api_key \in NoCredential) =>
          /\ ~storageOut.ok
          /\ storageOut.err \in MissingCredentials
          /\ http = <<>>
    /\ (/\ storageOp.op \in {"upload", "upload_json", "pin"}
        /\ ipfs_config.provider = "ipfs") =>
          (storageOut.ok \/ storageOut.err \notin MissingCredentials)

C24_Witness ==
    /\ storageOp.op = "upload"
    /\ ipfs_config.provider = "pinata"
    /\ ipfs_config.api_key = Some(<<"k", "e", "y">>)
    /\ ipfs_config.api_secret = Some(<<>>)
    /\ ~storageOut.ok
    /\ storageOut.err = "PinataCredentialsRequired"
    /\ http = <<>>

\* C25: the content upload_json hands to upload for a value is the content it
\* hands over for every structurally equal value, whatever the insertion order
\* of the keys.
C25_CanonicalJson ==
    (storageOp.op = "upload_json" /\ http # <<>>) =>
        \A e \in JsonValues :
            json_equal(e, storageOp.data) =>
                content_bytes(upload_json_content(e)).val = http[1].body

\* C30: a successful upload returns uri = "ipfs://" + cid and
\* url = gateway_url + cid = get_gateway_url(cid), and the fetch of the
\* returned identifier or of the returned URI requests exactly that url.
C30_UploadFetchSameAddress ==
    /\ (storageOp.op \in {"upload", "upload_json"} /\ storageOut.ok) =>
          /\ storageOut.val.uri = IpfsScheme \o storageOut.val.cid
          /\ storageOut.val.url = ipfs_config.gateway_url \o storageOut.val.cid
          /\ storageOut.val.url = get_gateway_url(ipfs_config, storageOut.val.cid)
    /\ storageOp.op = "fetch" =>
          /\ Len(http) = 1
          /\ http[1].method = "GET"
          /\ http[1].url = storageOp.uploaded.url

C30_Witness ==
    /\ storageOp.op = "fetch"
    /\ ipfs_config.provider = "web3storage"
    /\ ipfs_config.gateway_url # gateway_url
    /\ storageOp.arg = storageOp.uploaded.uri
    /\ storageOp.arg # storageOp.uploaded.cid
    /\ http[1].url = storageOp.uploaded.url
    /\ storageOut.ok

-----------------------------------------------------------------------------
(* Properties of the ledger adapter and of the facade over it              *)

ReadOnly(t) == threads[t].client.adapter.account = NoAccount

\* How many times the request x occurs in the sequence.
Count(seq, x) == Cardinality({i \in 1..Len(seq) : seq[i] = x})

\* C21: on an adapter without account, get_address returns None; send,
\* sign_message and sign_typed_data raise the account-required error
\* (MissingSigningKey) with no request made to the node; every state-changing
\* facade method and sign_feedback_auth fail with no request made and the
\* node untouched; get_token_uri (adapter.call) and get_chain_id still reach
\* the node and fail only if the node is not reached.
C21_ReadOnlyMode ==
    \A t \in DOMAIN threads :
        ReadOnly(t) =>
            LET th == threads[t]
            IN  /\ th.pc \in {"idle", "returned"}
                /\ ledger = Node(ledger.emits)
                /\ th.pc = "returned" =>
                    /\ th.method = "get_address" =>
                          (th.result.ok /\ th.result.val = None)
                    /\ th.method \in WriteMethods \cup SignMethods =>
                          (~th.result.ok /\ rpc[t] = <<>>)
                    /\ (th.method \in WriteMethods /\ th.sends = 1) =>
                          th.result.err = "AccountRequired"
                    /\ th.method \in {"sign_message", "sign_typed_data",
                                      "sign_feedback_auth"} =>
                          th.result.err = "AccountRequiredForSigning"
                    /\ th.method \in {"get_token_uri", "get_chain_id"} =>
                          /\ rpc[t] # <<>>
                          /\ (th.result.ok \/ th.result.err = "TransportError")

C21_Witness ==
    /\ ReadOnly(1)
    /\ history[1].method = "give_feedback"
    /\ history[1].sends = 1
    /\ threads[1].pc = "returned"
    /\ threads[1].method = "get_chain_id"
    /\ threads[1].result.ok
    /\ threads[1].result.val = ChainIdSample

\* C22: a state-changing facade method invokes adapter.send at most once, and
\* that send looks up the nonce and broadcasts at most once; when the send
\* fails, the method fails with the very exception of the send.
C22_NoRetry ==
    \A t \in DOMAIN threads :
        LET th == threads[t]
        IN  th.method \in WriteMethods =>
                /\ th.sends <= 1
                /\ Count(rpc[t], "eth_getTransactionCount") <= 1
                /\ Count(rpc[t], "eth_sendRawTransaction") <= 1
                /\ (th.pc = "returned" /\ th.sends = 1 /\ ~th.out.ok) =>
                       (~th.result.ok /\ th.result.err = th.out.err)

C22_Witness ==
    /\ threads[1].pc = "returned"
    /\ threads[1].method = "set_metadata"
    /\ threads[1].sends = 1
    /\ Count(rpc[1], "eth_sendRawTransaction") = 1
    /\ ~threads[1].out.ok
    /\ threads[1].out.err = "TransportError"
    /\ threads[1].result.err = "TransportError"

Built(t) ==
    /\ threads[t].pc \in {"broadcast", "wait", "returned"}
    /\ threads[t].tx # NoTx

NodeReached(t) == threads[t].result.err \notin {"TransportError", "TimeExhausted"}

\* C26: two state-changing calls made at the same time through adapters of
\* the same account, the node reached by both, are built with distinct nonces,
\* and each returns the receipt of its mined transaction.
C26_ParallelSendsDistinctNonces ==
    \A t, u \in DOMAIN threads :
        (/\ t # u
         /\ threads[t].client.adapter.account = threads[u].client.adapter.account
         /\ Built(t) /\ Built(u)
         /\ NodeReached(t) /\ NodeReached(u)) =>
            /\ threads[t].tx.nonce # threads[u].tx.nonce
            /\ threads[t].pc = "returned" => threads[t].out.ok

\* C27: no call changes the configuration of a client; the request of a call
\* is the translation of its arguments under the configuration; and a call
\* with the method and the arguments of the call before it makes the same
\* request and reaches adapter.send as the first did.
C27_StatelessFacade ==
    /\ [](\A t \in DOMAIN threads :
            LET th == threads[t]
                h == history[t]
            IN  /\ th.method \in WriteMethods =>
                      th.request = translate(th.client, th.method, th.args)
                /\ (th.method \in WriteMethods /\ h.method = th.method
                    /\ h.args = th.args) =>
                      (th.request = h.request /\ th.sends = h.sends))
    /\ [][\A t \in DOMAIN threads : threads'[t].client = threads[t].client]_vars

C27_Witness ==
    /\ threads[1].pc = "returned"
    /\ threads[1].method = "give_feedback"
    /\ history[1].method = "give_feedback"
    /\ history[1].args = threads[1].args
    /\ history[1].sends = 1
    /\ threads[1].sends = 1
    /\ threads[1].request = history[1].request
    /\ threads[1].out.ok
    /\ threads[1].out.status = 1

\* The events of the ABI that a log belongs to: its first topic is the hash
\* of the event's signature, it has one more topic per indexed input, and its
\* data decodes.
DeclaredEvents(abi, log) ==
    {k \in 1..Len(abi) :
        /\ abi[k].type = "event"
        /\ log.topics # <<>>
        /\ log.topics[1] = Keccak(<<abi[k].name, abi[k].types>>)
        /\ Len(log.topics) = 1 + abi[k].indexed
        /\ log.data_ok}

\* C28: the events send returns are, in the order of the receipt's logs, one
\* entry for each log that belongs to an event of the ABI and decodes, and
\* none for any other log; there are never more events than logs.
C28_EventsOfReceipt ==
    \A t \in DOMAIN threads :
        LET th == threads[t]
            abi == th.client.abi
            kept == SelectSeq(th.logs, LAMBDA log : DeclaredEvents(abi, log) # {})
        IN  (th.pc = "returned" /\ th.out.ok) =>
                /\ Len(th.out.events) = Len(kept)
                /\ Len(th.out.events) <= Len(th.logs)
                /\ \A i \in 1..Len(kept) :
                      /\ i <= Len(th.out.events)
                      /\ th.out.events[i].args = kept[i].args
                      /\ \E k \in DeclaredEvents(abi, kept[i]) :
                            th.out.events[i].name = abi[k].name

C28_Witness ==
    /\ threads[1].pc = "returned"
    /\ threads[1].out.ok
    /\ threads[1].client.abi = IdentityAbi
    /\ Len(threads[1].logs) = 2
    /\ threads[1].logs[1].topics = <<event_signature(RegisteredAbi)>>
    /\ threads[1].logs[2] = RegisteredLog
    /\ Len(threads[1].out.events) = 1
    /\ threads[1].out.events[1].name = "Registered"
    /\ threads[1].result.ok

\* The value sent for a tag: 32 zero bytes for an absent or empty tag, the
\* keccak-256 digest of any other.
TagSentAs(tag, sent_value) ==
    \/ tag \in {None, Some(<<>>)} /\ sent_value = ZeroBytes32
    \/ tag.some /\ tag.val # <<>> /\ sent_value = Keccak(tag.val)

\* C29: the tag arguments give_feedback, get_summary and read_all_feedback
\* hand to the adapter, and the tag argument validation_response and the
\* validation get_summary hand over, are the same function of the tag: 32
\* zero bytes for an absent or empty tag, the keccak-256 digest otherwise.
C29_TagEncodingConsistent ==
    adapterLog # <<>> =>
        /\ lastOp.op \in {"give_feedback", "get_summary", "read_all_feedback"} =>
              /\ TagSentAs(lastOp.tag1, adapterLog[1].args.tag1)
              /\ TagSentAs(lastOp.tag2, adapterLog[1].args.tag2)
        /\ lastOp.op \in {"validation_response", "validation_get_summary"} =>
              TagSentAs(lastOp.tag1, adapterLog[1].args.tag1)

C29_Witness ==
    /\ lastOp.op = "give_feedback"
    /\ lastOp.tag1 = Some(<<>>)
    /\ lastOp.tag2.some /\ lastOp.tag2.val # <<>>
    /\ adapterLog # <<>>
    /\ adapterLog[1].args.tag1 = ZeroBytes32
    /\ adapterLog[1].args.tag2 = Keccak(lastOp.tag2.val)

=============================================================================
